---- MODULE Spec2Model ----
(***************************************************************************)
(* GirderMedViewer: the viewport registries (VtkView / SliceView /         *)
(* ThreeDView), the shared reslice cursor, the scene objects (Scene,       *)
(* SceneObject, Volume, Mesh) and the item selection / load tasks          *)
(* (GirderFileSelector), modelled from app/vtk/components.py,              *)
(* app/vtk/utils.py, app/objects.py and app/girder/components.py.          *)
(***************************************************************************)
EXTENDS Integers, Sequences, FiniteSets, TLC

VARIABLES
    data,          \* VtkView.data of each view: insertion-ordered id -> list of renderables
    viewers,       \* vtk/utils.py `viewers`: the vtkResliceImageViewer of each slice axis
    cursor,        \* the vtkResliceCursor shared by the reslice image viewers
    position,      \* state.position
    normals,       \* state.normals
    redraws,       \* registry contents seen by each update() of the last slice-view call
    selected,      \* state.selected: the (id, item dict) pairs, an item dict being a handle
    itemLoading,   \* the item dicts whose "loading" is True
    objects,       \* Scene.objects
    views,         \* Scene.views, the list every SceneObject.views refers to
    tasks,         \* load tasks created by create_load_task and not finished
    now,           \* time(), in seconds
    last_clicked,  \* state.last_clicked
    last,          \* what the last handler did (history)
    last_preset_name,     \* Volume.last_preset_name
    obliques_visibility,  \* state.obliques_visibility
    debounce_tasks,       \* the tasks of the debounce wrappers and of the event loop
    calls,                \* the runs of the debounced functions (history)
    animation,            \* the slice views in animation (app/components.py)
    fetcher               \* the FileFetcher, its directories and its open fetches

vars == <<data, viewers, cursor, position, normals, redraws, selected, itemLoading,
          objects, views, tasks, now, last_clicked, last, last_preset_name,
          obliques_visibility, debounce_tasks, calls, animation, fetcher>>

----------------------------------------------------------------------------
(* Bounds of the model *)

\* most renderables one view's registry holds
MaxRegistered == 3

\* the observers of an event of a viewer are counted up to this number
MaxObservers == 2

\* binary digits after the point of the numbers of the model
FractionBits == 6

\* binary digits of the significand of a float (a Python float has 53)
Precision == 4

----------------------------------------------------------------------------
(* Views, ids, data *)

SliceViews == {"sag_view", "cor_view", "ax_view"}

\* QuadView.views, in the order _build_ui appends them
QuadViews == <<"sag_view", "threed_view", "cor_view", "ax_view">>

Views == {QuadViews[k] : k \in DOMAIN QuadViews}

\* Orientation.value of a slice view
Orientation(v) == CASE v = "sag_view" -> 0 [] v = "cor_view" -> 1 [] OTHER -> 2

\* the items of the asset store that decode to a volume, and to a mesh
VolumeIds == {"a", "b", "c"}

MeshIds == {"m"}

Ids == VolumeIds \cup MeshIds

\* None, as a data id
NoId == "none"

\* None, as state.position or state.normals
NoPoint == <<>>

Images == {"ct", "pet"}

\* the data load_volume / load_mesh decode from the file of an item
DataOf(id) == CASE id = "a" -> "ct" [] id = "b" -> "pet" [] id = "c" -> "ct" [] OTHER -> "surf"

(* Numbers: a float is counted in units of 2^-FractionBits and carries       *)
(* Precision significant binary digits; every arithmetic operation rounds    *)
(* its exact result to the nearest float, ties to even                       *)

\* the float 1.0
Scale == 2 ^ FractionBits

Abs(x) == IF x < 0 THEN -x ELSE x

\* weight of the last significant digit of the float nearest to num / den
RECURSIVE Ulp(_, _, _)
Ulp(num, den, u) ==
    IF num >= den * u * (2 ^ Precision) THEN Ulp(num, den, 2 * u) ELSE u

\* the float nearest to num / den
fl(num, den) ==
    LET n == Abs(num)
        d == Abs(den)
        u == Ulp(n, d, 1)
        t == n \div (d * u)
        r == n - t * d * u
        up == 2 * r > d * u \/ (2 * r = d * u /\ t % 2 = 1)
        m == (IF up THEN t + 1 ELSE t) * u
    IN  IF (num < 0) # (den < 0) THEN -m ELSE m

\* float + float, float - float, float / float
fadd(a, b) == fl(a + b, 1)

fsub(a, b) == fl(a - b, 1)

fdiv(a, b) == fl(a * Scale, b)

\* int * float and float / int
imul(i, a) == fl(i * a, 1)

divi(a, n) == fl(a, n)

\* math.ceil of a float, an int
ceil(a) == -((-a) \div Scale)

\* the point (x, y, z) of integer coordinates
Pt(x, y, z) == <<x * Scale, y * Scale, z * Scale>>

\* vtkImageData.GetBounds(): (xmin, xmax, ymin, ymax, zmin, zmax)
ImageBounds(img) ==
    IF img = "ct"
    THEN <<0, 4 * Scale, 0, 4 * Scale, 0, 4 * Scale>>
    ELSE <<0, 2 * Scale, 0, 2 * Scale, 0, 2 * Scale>>

\* vtkImageData.GetSpacing(): 1.375, 1.0, 2.0 for the ct, 1.0 for the pet
ImageSpacing(img) ==
    IF img = "ct"
    THEN <<(11 * Scale) \div 8, Scale, 2 * Scale>>
    ELSE <<Scale, Scale, Scale>>

\* vtkImageData.GetScalarRange()
ScalarRange(img) == IF img = "ct" THEN <<0, 200>> ELSE <<0, 100>>

\* vtkImageData.center
ImageCenter(img) ==
    LET b == ImageBounds(img)
    IN  <<(b[1] + b[2]) \div 2, (b[3] + b[4]) \div 2, (b[5] + b[6]) \div 2>>

\* positions a client or a gesture may publish
Points == {Pt(1, 2, 1), Pt(5, 2, 2)}

\* the axes of a vtkResliceCursor before anything sets them
InitialNormals == <<<<1, 0, 0>>, <<0, 1, 0>>, <<0, 0, 1>>>>

\* the plane normals reset_reslice sets
DefaultNormals == <<<<-1, 0, 0>>, <<0, 1, 0>>, <<0, 0, -1>>>>

\* the normals after a quarter turn of the cursor widget about z
RotatedNormals == <<<<0, -1, 0>>, <<1, 0, 0>>, <<0, 0, -1>>>>

NormalChoices == {DefaultNormals, RotatedNormals}

----------------------------------------------------------------------------
(* Renderables and registries *)

NoObj == [kind |-> "none", img |-> "none", h |-> 0]

\* the color (1, 0, 0) render_mesh_in_slice and render_mesh_in_3D give an actor;
\* the colors of get_random_color are 1, 2, ...
Red == 0

\* state[id] has no "color" before Mesh.load
NoColor == -1

\* the vtkResliceImageViewer of a view: one object per axis (viewers[axis])
ViewerObj == [kind |-> "reslice", img |-> "none", h |-> 0]

EmptyRegistry == <<>>

RegIds(reg) == {reg[k].id : k \in DOMAIN reg}

RegObjs(reg, id) ==
    IF id \in RegIds(reg)
    THEN reg[CHOOSE k \in DOMAIN reg : reg[k].id = id].objs
    ELSE <<>>

\* every renderable of a registry, in key order
RECURSIVE AllObjs(_)
AllObjs(reg) == IF reg = <<>> THEN <<>> ELSE reg[1].objs \o AllObjs(Tail(reg))

CountKind(reg, kind) ==
    LET all == AllObjs(reg)
    IN  Cardinality({k \in DOMAIN all : all[k].kind = kind})

Handles(reg) == {AllObjs(reg)[k].h : k \in DOMAIN AllObjs(reg)}

\* a handle no renderable of the registry carries: a newly constructed vtk object
NewHandle(reg) == CHOOSE n \in 1..(Len(AllObjs(reg)) + 1) :
    /\ n \notin Handles(reg)
    /\ \A m \in 1..(n - 1) : m \in Handles(reg)

\* VtkView.get_data_id
get_data_id(reg, obj) ==
    LET hits == {k \in DOMAIN reg : \E j \in DOMAIN reg[k].objs : reg[k].objs[j] = obj}
    IN  IF hits = {} THEN NoId
        ELSE reg[CHOOSE k \in hits : \A k2 \in hits : k <= k2].id

\* VtkView.get_data
get_data(reg, id) ==
    LET d == RegObjs(reg, id) IN IF Len(d) > 0 THEN d[1] ELSE NoObj

\* VtkView.register_data
register_data(reg, id, obj) ==
    IF id \in RegIds(reg)
    THEN [k \in DOMAIN reg |->
            IF reg[k].id = id
            THEN [id |-> id, objs |-> Append(reg[k].objs, obj)]
            ELSE reg[k]]
    ELSE Append(reg, [id |-> id, objs |-> <<obj>>])

\* the renderables VtkView.unregister_data removes from data[data_id]
Removed(reg, data_id, only_data) ==
    LET gone(o) == only_data = NoObj \/ o = only_data
    IN  SelectSeq(RegObjs(reg, data_id), gone)

\* the registry once VtkView.unregister_data has removed them
Unregistered(reg, data_id, only_data) ==
    LET stays(o) == ~(only_data = NoObj \/ o = only_data)
        cut == [k \in DOMAIN reg |->
                  IF reg[k].id = data_id
                  THEN [id |-> data_id, objs |-> SelectSeq(reg[k].objs, stays)]
                  ELSE reg[k]]
        live(e) == Len(e.objs) > 0
    IN  SelectSeq(cut, live)

\* SliceView.is_primary_volume, as the truth value its callers test
is_primary_volume(reg, data_id) == get_data(reg, data_id).kind = "reslice"

\* SliceView.is_secondary_volume, as the truth value its callers test
is_secondary_volume(reg, data_id) == get_data(reg, data_id).kind = "slice"

\* the ids SliceView.get_reslice_image_viewer and get_image_slices look at
LookupIds(reg, data_id) ==
    IF data_id \in RegIds(reg)
    THEN <<data_id>>
    ELSE [k \in DOMAIN reg |-> reg[k].id]

\* SliceView.get_reslice_image_viewer
get_reslice_image_viewer(reg, data_id) ==
    LET ids == LookupIds(reg, data_id)
        prim(id) == is_primary_volume(reg, id)
        found == SelectSeq(ids, prim)
    IN  IF Len(found) > 0 THEN get_data(reg, found[1]) ELSE NoObj

\* SliceView.get_image_slices
get_image_slices(reg, data_id) ==
    LET ids == LookupIds(reg, data_id)
        sec(id) == is_secondary_volume(reg, id)
        found == SelectSeq(ids, sec)
    IN  [k \in DOMAIN found |-> get_data(reg, found[k])]

\* SliceView.get_mesh_slices
get_mesh_slices(reg, data_id) ==
    LET src == IF data_id \in RegIds(reg) THEN RegObjs(reg, data_id) ELSE AllObjs(reg)
        actor(o) == o.kind = "actor"
    IN  SelectSeq(src, actor)

has_primary_volume(reg) == get_reslice_image_viewer(reg, NoId) # NoObj

has_secondary_volume(reg) == Len(get_image_slices(reg, NoId)) > 0

has_mesh(reg) == Len(get_mesh_slices(reg, NoId)) > 0

----------------------------------------------------------------------------
(* One slice view and what its calls touch: w = [reg, vw, cur, log]          *)
(*   reg: the view's registry, vw: the reslice image viewer of its axis,     *)
(*   cur: the shared cursor, log: the registry seen by each update()         *)

\* a vtkResliceImageViewer without input: window and level are set when it is
\* given an image, the opacity of its surface (in percent) is the actor's default
\* the axis -1 of get_reslice_image_viewer: no viewer
NoAxis == -1

\* a viewer that get_reslice_image_viewer has not created: once created its
\* cursor widget processes events, its centerlines are opaque (opacity in
\* hundredths) and cursor is the axis of the viewer whose vtkResliceCursor it uses;
\* observers counts, up to MaxObservers, the observers of each event of the viewer
NoViewer ==
    [input |-> "none", interactor |-> FALSE, window |-> 0, level |-> 0, opacity |-> 100,
     process_events |-> TRUE, centerlines |-> 100, cursor |-> NoAxis, observers |-> 0]

\* the vtkResliceCursor of the first viewer (owner its axis) once there is one
InitialCursor ==
    [center |-> <<0, 0, 0>>, normals |-> InitialNormals, image |-> "none",
     owner |-> NoAxis]

\* no debounced call yet: latest is _debounce_tasks (key -> number of the
\* task), loop the sleeping tasks, created the number of tasks made, cancelled
\* the tasks a cancel() took from their sleep
NoTasks == [latest |-> [k \in {} |-> 0], loop |-> {}, created |-> 0, cancelled |-> {}]

Snapshot(reg) == [prim |-> CountKind(reg, "reslice"), sec |-> CountKind(reg, "slice")]

\* VtkRemoteView.update as SliceView calls it
update(w) == [w EXCEPT !.log = Append(w.log, Snapshot(w.reg))]

\* mutant: the planes are reset, the center is left where it was
reset_reslice_keeps_center(w) == [w EXCEPT !.cur.normals = DefaultNormals]

\* reset_reslice
reset_reslice(w) ==
    [w EXCEPT !.cur = [center |-> IF w.vw.input # "none"
                                    THEN ImageCenter(w.vw.input)
                                    ELSE w.cur.center,
                       normals |-> DefaultNormals,
                       image |-> w.cur.image,
                       owner |-> w.cur.owner]]

\* set_oblique_visibility
set_oblique_visibility(vw, visible) ==
    [vw EXCEPT !.centerlines = IF visible THEN 100 ELSE 0,
               !.process_events = visible]

\* get_reslice_image_viewer(-1): the axis of the first viewer, the viewer of
\* axis being created by the call before
first_viewer(cur, axis) == IF cur.owner = NoAxis THEN axis ELSE cur.owner

\* mutant: the viewer keeps the vtkResliceCursor it was created with
SetResliceCursor_own(axis, first) == axis

\* reslice_image_viewer.SetResliceCursor(get_reslice_image_viewer(-1).GetResliceCursor())
SetResliceCursor(axis, first) == first

\* render_volume_in_slice: the viewer of the axis is bound to the view's
\* interactor and given the image; the cursor (whose image SetInputData sets)
\* is that of the first viewer and is reset
render_volume_in_slice(w, image_data, obliques) ==
    LET first == first_viewer(w.cur, w.axis)
        vw == [w.vw EXCEPT !.input = image_data, !.interactor = TRUE,
                           !.window = ScalarRange(image_data)[2] - ScalarRange(image_data)[1],
                           !.level = (ScalarRange(image_data)[1]
                                      + ScalarRange(image_data)[2]) \div 2,
                           !.cursor = SetResliceCursor(w.axis, first)]
        w1 == reset_reslice([w EXCEPT !.vw = vw, !.cur.image = image_data,
                                      !.cur.owner = first])
    IN  IF ~obliques THEN [w1 EXCEPT !.vw = set_oblique_visibility(w1.vw, obliques)]
        ELSE w1

\* remove_prop on each renderable VtkView.unregister_data removes
remove_props(vw, gone) ==
    IF \E k \in DOMAIN gone : gone[k].kind = "reslice"
    THEN [vw EXCEPT !.interactor = FALSE]
    ELSE vw

\* mutant: the redraw is issued whatever no_render says
VtkView_unregister_data_always_renders(w, data_id, no_render, only_data) ==
    update([w EXCEPT !.reg = Unregistered(w.reg, data_id, only_data),
                     !.vw = remove_props(w.vw, Removed(w.reg, data_id, only_data))])

\* VtkView.unregister_data
VtkView_unregister_data(w, data_id, no_render, only_data) ==
    LET w1 == [w EXCEPT !.reg = Unregistered(w.reg, data_id, only_data),
                        !.vw = remove_props(w.vw, Removed(w.reg, data_id, only_data))]
    IN  IF no_render THEN w1 ELSE update(w1)

\* SliceView.add_primary_volume
\* AddObserver: one more observer of each of the four events of the viewer, of
\* its cursor widget and of its interactor style
AddObserver(vw) ==
    [vw EXCEPT !.observers = IF @ < MaxObservers THEN @ + 1 ELSE @]

add_primary_volume(w, image_data, data_id) ==
    LET w1 == render_volume_in_slice(w, image_data, obliques_visibility)
    IN  update([w1 EXCEPT !.reg = register_data(w1.reg, data_id, ViewerObj),
                          !.vw = AddObserver(@)])

\* render_volume_as_overlay_in_slice: a new vtkImageSlice of opacity 0.8 (in
\* percent) whose window and level come from the scalar range of the image
render_volume_as_overlay_in_slice(reg, image_data) ==
    [kind |-> "slice", img |-> image_data, h |-> NewHandle(reg),
     opacity |-> 80,
     window |-> (ScalarRange(image_data)[2] - ScalarRange(image_data)[1]) \div 2,
     level |-> (ScalarRange(image_data)[1] + ScalarRange(image_data)[2]) \div 2]

\* SliceView.add_secondary_volume: the new vtkImageSlice is registered
add_secondary_volume(w, image_data, data_id) ==
    update([w EXCEPT !.reg = register_data(w.reg, data_id,
                render_volume_as_overlay_in_slice(w.reg, image_data))])

\* SliceView.add_mesh: a new vtkActor is registered
SliceView_add_mesh(w, poly_data, data_id) ==
    update([w EXCEPT !.reg = register_data(w.reg, data_id,
                [kind |-> "actor", img |-> poly_data, h |-> NewHandle(w.reg),
                 color |-> Red, opacity |-> 100])])

\* the loop of SliceView.unregister_data over get_mesh_slices()
RECURSIVE unregister_mesh_slices(_, _)
unregister_mesh_slices(w, slices) ==
    IF slices = <<>> THEN w
    ELSE unregister_mesh_slices(
            VtkView_unregister_data(w, get_data_id(w.reg, slices[1]), TRUE, slices[1]),
            Tail(slices))

\* SliceView.unregister_data
SliceView_unregister_data(w, data_id, no_render, only_data) ==
    LET w1 == VtkView_unregister_data(w, data_id, TRUE, NoObj)
        image_slice == get_image_slices(w1.reg, NoId)[1]
        secondary_data_id == get_data_id(w1.reg, image_slice)
        w2 == IF ~has_primary_volume(w1.reg) /\ has_secondary_volume(w1.reg)
              THEN VtkView_unregister_data(
                       add_primary_volume(w1, image_slice.img, secondary_data_id),
                       secondary_data_id, TRUE, image_slice)
              ELSE w1
        w3 == IF ~has_primary_volume(w2.reg) /\ has_mesh(w2.reg)
              THEN unregister_mesh_slices(w2, get_mesh_slices(w2.reg, NoId))
              ELSE w2
    IN  IF no_render THEN w3 ELSE update(w3)

\* mutant: the point is returned as it is given
get_closest_point_in_bounds_unclamped(bounds, point) == point

\* get_closest_point_in_bounds
get_closest_point_in_bounds(bounds, point) ==
    LET max(x, y) == IF x >= y THEN x ELSE y
        min(x, y) == IF x <= y THEN x ELSE y
    IN  [k \in 1..3 |-> max(bounds[2 * k - 1], min(point[k], bounds[2 * k]))]

\* vtkBoundingBox(bounds).ContainsPoint
ContainsPoint(bounds, p) ==
    \A k \in 1..3 : bounds[2 * k - 1] <= p[k] /\ p[k] <= bounds[2 * k]

\* set_reslice_center on the viewer of a view (None when the view has no primary)
set_reslice_center(w, reslice_object, new_center) ==
    IF reslice_object = NoObj \/ w.cur.center = new_center
    THEN w
    ELSE [w EXCEPT !.cur.center =
            IF ContainsPoint(ImageBounds(w.cur.image), new_center)
            THEN new_center
            ELSE get_closest_point_in_bounds(ImageBounds(w.cur.image), new_center)]

\* set_reslice_normal
set_reslice_normal(w, reslice_object, new_normal, axis) ==
    IF reslice_object = NoObj \/ w.cur.normals[axis + 1] = new_normal
    THEN w
    ELSE [w EXCEPT !.cur.normals[axis + 1] = new_normal]

\* what set_reslice_center returns
set_reslice_center_returned(w, reslice_object, new_center) ==
    ~(reslice_object = NoObj \/ w.cur.center = new_center)

\* what set_reslice_normal returns
set_reslice_normal_returned(w, reslice_object, new_normal, axis) ==
    ~(reslice_object = NoObj \/ w.cur.normals[axis + 1] = new_normal)

\* set_reslice_window_level
set_reslice_window_level(w, reslice_image_viewer, new_window_level) ==
    IF \/ reslice_image_viewer = NoObj
       \/ w.vw.window = new_window_level[1] /\ w.vw.level = new_window_level[2]
    THEN w
    ELSE [w EXCEPT !.vw.window = new_window_level[1], !.vw.level = new_window_level[2]]

\* what set_reslice_window_level returns
set_reslice_window_level_returned(w, reslice_image_viewer, new_window_level) ==
    ~(\/ reslice_image_viewer = NoObj
      \/ w.vw.window = new_window_level[1] /\ w.vw.level = new_window_level[2])

\* set_reslice_opacity: "not implemented", the viewer is left as it is
set_reslice_opacity(w, reslice_image_viewer, opacity) == w

\* what set_reslice_opacity returns
set_reslice_opacity_returned(w, reslice_image_viewer, opacity) == FALSE

\* the registry with the vtkImageSlice old in the state new
Replaced(reg, old, new) ==
    [k \in DOMAIN reg |->
        [id |-> reg[k].id,
         objs |-> [j \in DOMAIN reg[k].objs |->
                     IF reg[k].objs[j] = old THEN new ELSE reg[k].objs[j]]]]

\* set_slice_opacity on a vtkImageSlice, as the slice it leaves
set_slice_opacity(image_slice, opacity) ==
    IF image_slice = NoObj \/ image_slice.opacity = opacity
    THEN image_slice
    ELSE [image_slice EXCEPT !.opacity = opacity]

\* what set_slice_opacity returns
set_slice_opacity_returned(image_slice, opacity) ==
    ~(image_slice = NoObj \/ image_slice.opacity = opacity)

\* set_slice_window_level on a vtkImageSlice, as the slice it leaves
set_slice_window_level(image_slice, window_level) ==
    IF \/ image_slice = NoObj
       \/ image_slice.window = window_level[1] /\ image_slice.level = window_level[2]
    THEN image_slice
    ELSE [image_slice EXCEPT !.window = window_level[1], !.level = window_level[2]]

\* what set_slice_window_level returns
set_slice_window_level_returned(image_slice, window_level) ==
    ~(\/ image_slice = NoObj
      \/ image_slice.window = window_level[1] /\ image_slice.level = window_level[2])

\* the loop of SliceView.set_volume_opacity over get_image_slices(data_id):
\* m.w is the view, m.modified the flag
RECURSIVE set_slices_opacity(_, _, _)
set_slices_opacity(m, slices, opacity) ==
    IF slices = <<>> THEN m
    ELSE set_slices_opacity(
            [w |-> [m.w EXCEPT !.reg = Replaced(m.w.reg, slices[1],
                                                set_slice_opacity(slices[1], opacity))],
             modified |-> set_slice_opacity_returned(slices[1], opacity) \/ m.modified],
            Tail(slices), opacity)

\* SliceView.set_volume_opacity up to its test of modified
set_volume_opacity_setters(w, data_id, opacity) ==
    LET reslice_image_viewer == get_reslice_image_viewer(w.reg, data_id)
        m0 == IF reslice_image_viewer # NoObj
              THEN [w |-> set_reslice_opacity(w, reslice_image_viewer, opacity),
                    modified |-> set_reslice_opacity_returned(w, reslice_image_viewer,
                                                              opacity)]
              ELSE [w |-> w, modified |-> FALSE]
    IN  set_slices_opacity(m0, get_image_slices(w.reg, data_id), opacity)

\* SliceView.set_volume_opacity
set_volume_opacity(w, data_id, opacity) ==
    LET m == set_volume_opacity_setters(w, data_id, opacity)
    IN  IF m.modified THEN update(m.w) ELSE m.w

\* the loop of SliceView.set_volume_window_level over get_image_slices(data_id)
RECURSIVE set_slices_window_level(_, _, _)
set_slices_window_level(m, slices, window_level) ==
    IF slices = <<>> THEN m
    ELSE set_slices_window_level(
            [w |-> [m.w EXCEPT !.reg = Replaced(m.w.reg, slices[1],
                                    set_slice_window_level(slices[1], window_level))],
             modified |-> set_slice_window_level_returned(slices[1], window_level)
                            \/ m.modified],
            Tail(slices), window_level)

\* SliceView.set_volume_window_level up to its test of modified
set_volume_window_level_setters(w, data_id, window_level) ==
    LET reslice_image_viewer == get_reslice_image_viewer(w.reg, data_id)
        m0 == IF reslice_image_viewer # NoObj
              THEN [w |-> set_reslice_window_level(w, reslice_image_viewer, window_level),
                    modified |-> set_reslice_window_level_returned(
                                    w, reslice_image_viewer, window_level)]
              ELSE [w |-> w, modified |-> FALSE]
    IN  set_slices_window_level(m0, get_image_slices(w.reg, data_id), window_level)

\* SliceView.set_volume_window_level
set_volume_window_level(w, data_id, window_level) ==
    LET m == set_volume_window_level_setters(w, data_id, window_level)
    IN  IF m.modified THEN update(m.w) ELSE m.w

\* SliceView.set_volume_window_level_min_max, <<>> being None
set_volume_window_level_min_max(w, data_id, window_level_min_max) ==
    IF window_level_min_max = <<>> THEN w
    ELSE set_volume_window_level(w, data_id,
            <<window_level_min_max[2] - window_level_min_max[1],
              (window_level_min_max[1] + window_level_min_max[2]) \div 2>>)

\* get_reslice_normal
get_reslice_normal(w, axis) == w.cur.normals[axis + 1]

\* the coordinate a normal of the model points along
NormalAxis(normal) == CHOOSE k \in 1..3 : normal[k] # 0

\* get_reslice_range: the two points where the line through center (the cursor
\* center when center is None or outside the bounds) along the normal of the
\* axis meets the box of the viewer's image, entry point first
get_reslice_range(w, reslice_image_viewer, axis, center) ==
    LET bounds == ImageBounds(w.vw.input)
        c == IF center = NoPoint \/ ~ContainsPoint(bounds, center)
             THEN w.cur.center ELSE center
        normal == get_reslice_normal(w, axis)
        k == NormalAxis(normal)
        lo == bounds[2 * k - 1]
        hi == bounds[2 * k]
    IN  IF reslice_image_viewer = NoObj THEN NoPoint
        ELSE <<[c EXCEPT ![k] = IF normal[k] > 0 THEN lo ELSE hi],
               [c EXCEPT ![k] = IF normal[k] > 0 THEN hi ELSE lo]>>

\* vtkMath.Norm of a vector along a coordinate axis: sqrt(x * x) is |x| in
\* binary floating point
Norm(v) == Abs(v[1]) + Abs(v[2]) + Abs(v[3])

\* get_index
get_index(p1, p2, spacing) ==
    ceil(Norm([k \in 1..3 |-> fdiv(fsub(p2[k], p1[k]), spacing[k])]))

\* get_number_of_slices
get_number_of_slices(w, reslice_image_viewer, axis) ==
    IF reslice_image_viewer = NoObj THEN 0
    ELSE LET range == get_reslice_range(w, reslice_image_viewer, axis, NoPoint)
         IN  get_index(range[1], range[2], ImageSpacing(w.vw.input))

\* the None an index may be
NoIndex == -1

\* get_slice_index_from_position
get_slice_index_from_position(w, pos, reslice_image_viewer, axis) ==
    IF reslice_image_viewer = NoObj THEN NoIndex
    ELSE LET range == get_reslice_range(w, reslice_image_viewer, axis, pos)
         IN  get_index(range[1], pos, ImageSpacing(w.vw.input))

\* mutant: without a viewer the position is the center of the cursor
get_position_from_slice_index_unguarded(w, index, reslice_image_viewer, axis) ==
    w.cur.center

\* get_position_from_slice_index
get_position_from_slice_index(w, index, reslice_image_viewer, axis) ==
    LET range == get_reslice_range(w, reslice_image_viewer, axis, NoPoint)
        start == range[1]
        end == range[2]
        slice_count == get_number_of_slices(w, reslice_image_viewer, axis)
        dir == [k \in 1..3 |-> fsub(end[k], start[k])]
    IN  IF reslice_image_viewer = NoObj THEN NoPoint
        ELSE IF slice_count = 0 THEN NoPoint
        ELSE [k \in 1..3 |-> fadd(start[k], divi(imul(index, dir[k]), slice_count))]

\* SliceView.get_slice_range
get_slice_range(w, axis) ==
    <<0, get_number_of_slices(w, get_reslice_image_viewer(w.reg, NoId), axis)>>

\* SliceView.get_slice, pos being state.position
get_slice(w, axis, pos) ==
    get_slice_index_from_position(w, pos, get_reslice_image_viewer(w.reg, NoId), axis)

\* SliceView.on_cursor_changed(position, normals) of the view of orientation axis
on_cursor_changed(w, axis, pos, nrm) ==
    IF pos # NoPoint /\ nrm # NoPoint
    THEN update(set_reslice_normal(
                    set_reslice_center(w, get_reslice_image_viewer(w.reg, NoId), pos),
                    get_reslice_image_viewer(w.reg, NoId), nrm[axis + 1], axis))
    ELSE w

\* mutant: a volume is always rendered as an overlay
SliceView_add_volume_overlay_only(w, image_data, data_id) ==
    add_secondary_volume(w, image_data, data_id)

\* SliceView.add_volume, up to its call of on_reslice_cursor_interaction
SliceView_add_volume(w, image_data, data_id) ==
    IF ~has_primary_volume(w.reg)
    THEN add_primary_volume(w, image_data, data_id)
    ELSE add_secondary_volume(w, image_data, data_id)

----------------------------------------------------------------------------
(* One slice viewport driven call by call *)

\* the viewport the calls are made on
sv == "sag_view"

World(v) ==
    [reg |-> data[v], vw |-> viewers[v], cur |-> cursor, log |-> <<>>,
     axis |-> Orientation(v)]

Registered(v) == Len(AllObjs(data[v]))

\* the gestures and the debounced calls are left alone
GestureUnchanged ==
    UNCHANGED <<obliques_visibility, debounce_tasks, calls, animation, fetcher>>

\* what the handlers of the views leave alone besides the scene
SettingsUnchanged ==
    /\ UNCHANGED last_preset_name
    /\ GestureUnchanged

OrchestratorUnchanged ==
    /\ UNCHANGED <<selected, itemLoading, objects, views, tasks, now, last_clicked>>
    /\ SettingsUnchanged

\* the directory of the assetstore and the temporary directory, as paths
AssetstoreDir == <<"store">>

TempDir == <<"tmp">>

\* the files of the asset store: file["_id"], file["name"]; file["path"] is
\* the name under the id
Files ==
    {[id |-> "f1", name |-> "a.nii"], [id |-> "f2", name |-> "b.mha"],
     [id |-> "f3", name |-> "m.stl"]}

\* the files the directory of the assetstore holds
Stored == {<<"store", "f1", "a.nii">>}

\* most fetches open at a time
MaxFetches == 2

CacheModes == {"No", "Session", "Permanent"}

\* os.path.dirname
dirname(path) == SubSeq(path, 1, Len(path) - 1)

\* are_same_paths
are_same_paths(path1, path2) == path1 = path2

\* FileFetcher.__init__: assetstore tells whether assetstore_dir is given; fs
\* is the files that exist, fetches the contexts of fetch_file not left yet
FileFetcher(assetstore, cache_mode) ==
    [assetstore_dir_path |-> IF assetstore THEN AssetstoreDir ELSE <<>>,
     cache |-> cache_mode,
     temporary_directory |-> cache_mode # "Permanent",
     temp_dir_path |-> TempDir,
     fs |-> Stored, fetches |-> {}, deleted |-> FALSE]

\* TemporaryDirectory.cleanup: the directory goes with all it holds
cleanup(fs) == {path \in fs : path[1] # TempDir[1]}

\* FileFetcher.clear_cache; file_path is <<>> for None
clear_cache(f, file_path) ==
    IF file_path # <<>> /\ are_same_paths(dirname(file_path), f.temp_dir_path)
    THEN [f EXCEPT !.fs = @ \ {file_path}]
    ELSE IF f.temporary_directory
    THEN [f EXCEPT !.fs = cleanup(@)]
    ELSE f

\* the path fetch_file yields for file: the file of the assetstore when the
\* directory is given and holds it, the file of the temporary directory otherwise
fetch_path(f, file) ==
    IF f.assetstore_dir_path # <<>>
       /\ f.assetstore_dir_path \o <<file.id, file.name>> \in f.fs
    THEN f.assetstore_dir_path \o <<file.id, file.name>>
    ELSE f.temp_dir_path \o <<file.id, file.name>>

\* fetch_file up to its yield: the file is downloaded when it does not exist
FetchFile(file) ==
    /\ ~fetcher.deleted
    /\ Cardinality(fetcher.fetches) < MaxFetches
    /\ \A c \in fetcher.fetches : c.file # file
    /\ fetcher' = [fetcher EXCEPT
                      !.fs = @ \cup {fetch_path(fetcher, file)},
                      !.fetches = @ \cup {[file |-> file,
                                           file_path |-> fetch_path(fetcher, file)]}]
    /\ last' = [op |-> "fetch_file", id |-> file.id]
    /\ UNCHANGED <<data, viewers, cursor, position, normals, redraws, selected,
                   itemLoading, objects, views, tasks, now, last_clicked,
                   last_preset_name, obliques_visibility, debounce_tasks, calls,
                   animation>>

\* the finally clause of fetch_file, when the context c is left
LeaveFetch(c) ==
    /\ c \in fetcher.fetches
    /\ \E f \in {[fetcher EXCEPT !.fetches = @ \ {c}]} :
           fetcher' = IF f.cache = "No" THEN clear_cache(f, c.file_path) ELSE f
    /\ last' = [op |-> "leave_fetch", id |-> c.file.id]
    /\ UNCHANGED <<data, viewers, cursor, position, normals, redraws, selected,
                   itemLoading, objects, views, tasks, now, last_clicked,
                   last_preset_name, obliques_visibility, debounce_tasks, calls,
                   animation>>

\* FileFetcher.__del__, once no fetch is open
Delete ==
    /\ ~fetcher.deleted
    /\ fetcher.fetches = {}
    /\ \E f \in {[fetcher EXCEPT !.deleted = TRUE]} :
           fetcher' = IF f.cache = "Session" THEN clear_cache(f, <<>>) ELSE f
    /\ last' = [op |-> "del", id |-> NoId]
    /\ UNCHANGED <<data, viewers, cursor, position, normals, redraws, selected,
                   itemLoading, objects, views, tasks, now, last_clicked,
                   last_preset_name, obliques_visibility, debounce_tasks, calls,
                   animation>>

\* the state the constructors leave, vs being the views attached to the
\* scene, but for the FileFetcher
ConstructedScene(vs) ==
    /\ data = [v \in Views |-> EmptyRegistry]
    /\ viewers = [v \in SliceViews |-> NoViewer]
    /\ cursor = InitialCursor
    /\ position = NoPoint
    /\ normals = NoPoint
    /\ redraws = <<>>
    /\ selected = <<>>
    /\ itemLoading = {}
    /\ objects = <<>>
    /\ views = vs
    /\ tasks = {}
    /\ now = 1
    /\ last_clicked = 0
    /\ last = [op |-> "init", id |-> NoId]
    /\ last_preset_name = "none"
    /\ obliques_visibility = TRUE
    /\ debounce_tasks = NoTasks
    /\ calls = <<>>
    /\ animation = {}

\* the state the constructors leave: no assetstore directory, cache mode No
Constructed(vs) ==
    /\ ConstructedScene(vs)
    /\ fetcher = FileFetcher(FALSE, "No")

\* the application with any FileFetcher, its fetches and its end
FetchInit ==
    /\ ConstructedScene(QuadViews)
    /\ \E assetstore \in BOOLEAN, cache_mode \in CacheModes :
           fetcher = FileFetcher(assetstore, cache_mode)

FetchNext ==
    \/ \E file \in Files : FetchFile(file)
    \/ \E c \in fetcher.fetches : LeaveFetch(c)
    \/ Delete

FetchSpec == FetchInit /\ [][FetchNext]_vars

SvInit == Constructed(QuadViews)

\* add_volume(image_data, data_id) on the viewport: when it made the primary,
\* on_reslice_cursor_interaction publishes the cursor and the flush runs
\* on_cursor_changed
SvAddVolume(data_id) ==
    /\ Registered(sv) < MaxRegistered
    /\ LET was == has_primary_volume(data[sv])
           w1 == SliceView_add_volume(World(sv), DataOf(data_id), data_id)
           pub == ~was /\ (position # w1.cur.center \/ normals # w1.cur.normals)
           w2 == IF pub
                 THEN on_cursor_changed(w1, Orientation(sv), w1.cur.center, w1.cur.normals)
                 ELSE w1
       IN  /\ data' = [data EXCEPT ![sv] = w2.reg]
           /\ viewers' = [viewers EXCEPT ![sv] = w2.vw]
           /\ cursor' = w2.cur
           /\ redraws' = w2.log
           /\ position' = IF was THEN position ELSE w1.cur.center
           /\ normals' = IF was THEN normals ELSE w1.cur.normals
           /\ last' = [op |-> "add_volume", id |-> data_id]
    /\ OrchestratorUnchanged

\* add_mesh(poly_data, data_id) on the viewport
SvAddMesh(data_id) ==
    /\ Registered(sv) < MaxRegistered
    /\ LET w1 == SliceView_add_mesh(World(sv), DataOf(data_id), data_id)
       IN  /\ data' = [data EXCEPT ![sv] = w1.reg]
           /\ redraws' = w1.log
           /\ last' = [op |-> "add_mesh", id |-> data_id]
    /\ UNCHANGED <<viewers, cursor, position, normals>>
    /\ OrchestratorUnchanged

\* remove_data(data_id) on the viewport: unregister_data(data_id)
SvRemoveData(data_id) ==
    /\ LET w1 == SliceView_unregister_data(World(sv), data_id, FALSE, NoObj)
       IN  /\ data' = [data EXCEPT ![sv] = w1.reg]
           /\ viewers' = [viewers EXCEPT ![sv] = w1.vw]
           /\ cursor' = w1.cur
           /\ redraws' = w1.log
           /\ last' = [op |-> "remove_data", id |-> data_id]
    /\ UNCHANGED <<position, normals>>
    /\ OrchestratorUnchanged

\* remove_volume(data_id, only_data=r) on the viewport, r being the k-th
\* renderable registered under data_id: unregister_data(data_id, False, r)
SvRemoveVolume(data_id, k) ==
    /\ k \in DOMAIN RegObjs(data[sv], data_id)
    /\ LET r == RegObjs(data[sv], data_id)[k]
           w1 == SliceView_unregister_data(World(sv), data_id, FALSE, r)
       IN  /\ data' = [data EXCEPT ![sv] = w1.reg]
           /\ viewers' = [viewers EXCEPT ![sv] = w1.vw]
           /\ cursor' = w1.cur
           /\ redraws' = w1.log
           /\ last' = [op |-> "remove_volume", id |-> data_id, only_data |-> r]
    /\ UNCHANGED <<position, normals>>
    /\ OrchestratorUnchanged

\* state.position / state.normals set to new values and flushed: on_cursor_changed
SvCursorChanged(pos, nrm) ==
    /\ position # NoPoint
    /\ pos # position \/ nrm # normals
    /\ LET w1 == on_cursor_changed(World(sv), Orientation(sv), pos, nrm)
       IN  /\ data' = [data EXCEPT ![sv] = w1.reg]
           /\ viewers' = [viewers EXCEPT ![sv] = w1.vw]
           /\ cursor' = w1.cur
           /\ redraws' = w1.log
           /\ position' = pos
           /\ normals' = nrm
           /\ last' = [op |-> "cursor_changed", id |-> NoId]
    /\ OrchestratorUnchanged

SvNext ==
    \/ \E id \in VolumeIds : SvAddVolume(id)
    \/ \E id \in MeshIds : SvAddMesh(id)
    \/ \E id \in Ids : SvRemoveData(id)
    \/ \E id \in Ids, k \in 1..MaxRegistered : SvRemoveVolume(id, k)
    \/ \E pos \in Points, nrm \in NormalChoices : SvCursorChanged(pos, nrm)

SliceSpec == SvInit /\ [][SvNext]_vars

----------------------------------------------------------------------------
(* Claims about one slice viewport (SliceSpec) *)

Primaries(reg) == CountKind(reg, "reslice")

Secondaries(reg) == CountKind(reg, "slice")

\* the ids of a registry that hold an overlay, in registration order
RECURSIVE SecondaryIds(_)
SecondaryIds(reg) ==
    IF reg = <<>> THEN <<>>
    ELSE (IF \E k \in DOMAIN reg[1].objs : reg[1].objs[k].kind = "slice"
          THEN <<reg[1].id>> ELSE <<>>) \o SecondaryIds(Tail(reg))

\* the step is remove_data(id) taking the primary away from under secondaries
RemovesPrimaryUnderSecondaries ==
    /\ last'.op = "remove_data"
    /\ is_primary_volume(data[sv], last'.id)
    /\ Secondaries(Unregistered(data[sv], last'.id, NoObj)) > 0

\* C1: after every add_volume / remove_data call the slice viewport holds no
\* volume renderable at all, or exactly one primary renderable.
C1_PrimaryInvariant ==
    \/ Primaries(data[sv]) + Secondaries(data[sv]) = 0
    \/ Primaries(data[sv]) = 1

\* C2: when remove_data(id) removes the primary from under secondaries, the
\* secondary registered earliest is promoted: afterwards its id holds exactly
\* one renderable, the primary, and every other secondary is registered as
\* it was.
C2_FirstSecondaryPromoted ==
    [][RemovesPrimaryUnderSecondaries =>
        LET rest == Unregistered(data[sv], last'.id, NoObj)
            first == SecondaryIds(rest)[1]
        IN  /\ RegObjs(data'[sv], first) = <<ViewerObj>>
            /\ \A id \in RegIds(rest) \ {first} :
                   RegObjs(data'[sv], id) = RegObjs(rest, id)]_vars

\* C3: with A the primary and B the only secondary, removing A makes B the
\* primary and leaves the shared cursor where it was: same center, same
\* normals.
C3_PromotionKeepsCursor ==
    [][(/\ RemovesPrimaryUnderSecondaries
        /\ Len(data[sv]) = 2
        /\ Len(AllObjs(data[sv])) = 2) =>
        /\ is_primary_volume(data'[sv], data[sv][2].id)
        /\ cursor'.center = cursor.center
        /\ cursor'.normals = cursor.normals]_vars

\* C4: every redraw remove_data issues on the slice viewport sees a primary
\* whenever it sees a secondary.
C4_NoFrameWithoutPrimary ==
    last.op = "remove_data" =>
        \A k \in DOMAIN redraws : redraws[k].sec > 0 => redraws[k].prim > 0

\* C4 witness: a remove_data call promoted a secondary and redrew twice, the
\* first time with the overlay still registered.
C4_Witness ==
    /\ last.op = "remove_data"
    /\ Len(redraws) = 2
    /\ redraws[1].sec > 0
    /\ redraws[1].prim > 0

----------------------------------------------------------------------------
(* The application: GirderFileSelector, Scene and the four views of QuadView *)

\* last second of the clock
MaxTime == 3

\* the items of the asset store the user may click
Items == {"a", "b", "m", "p", "x"}

\* the path fetch_file yields for the single file of an item, split at its dots
PathOf(id) ==
    CASE id = "a" -> <<"a", ".nii", ".gz">>
      [] id = "b" -> <<"b", ".mha">>
      [] id = "c" -> <<"c", ".vti">>
      [] id = "m" -> <<"m", ".stl">>
      [] id = "n" -> <<"n", ".stl">>
      [] id = "p" -> <<"p", ".vtp">>
      [] OTHER -> <<"x", ".txt">>

\* str.endswith(ext)
EndsWith(file_path, ext) ==
    /\ Len(ext) <= Len(file_path)
    /\ SubSeq(file_path, Len(file_path) - Len(ext) + 1, Len(file_path)) = ext

\* str.endswith(tuple of extensions)
EndsWithAny(file_path, exts) == \E k \in DOMAIN exts : EndsWith(file_path, exts[k])

supported_volume_extensions ==
    <<<<".nii">>, <<".nii", ".gz">>, <<".nrrd">>, <<".mha">>, <<".zip">>, <<".vti">>>>

supported_mesh_extensions == <<<<".stl">>, <<".vtp">>>>

\* load_volume: the image the file decodes to, "none" when it raises
load_volume(file_path) ==
    IF EndsWithAny(file_path, <<<<".nii">>, <<".nii", ".gz">>, <<".nrrd">>, <<".mha">>,
                                <<".zip">>, <<".vti">>>>)
    THEN DataOf(file_path[1])
    ELSE "none"

\* load_mesh: the surface the file decodes to, "none" when it raises
load_mesh(file_path) ==
    IF EndsWithAny(file_path, <<<<".stl">>, <<".vtp">>>>)
    THEN DataOf(file_path[1])
    ELSE "none"

\* SceneObject.__init__: state[id] and the data of the object; opacity in
\* hundredths, window_level_min_max, preset and preset_range not set yet
SceneObject(id, data_type) ==
    [id |-> id, type |-> data_type, data |-> "none", loaded |-> FALSE, loading |-> FALSE,
     opacity |-> 100, window_level_min_max |-> <<>>, preset |-> "none",
     preset_range |-> <<>>, is_secondary |-> FALSE, color |-> NoColor]

\* Volume.__init__
Volume(scene_object) == SceneObject(scene_object.id, "volume")

\* Mesh.__init__
Mesh(scene_object) == SceneObject(scene_object.id, "mesh")

\* SceneObject.set_file_path
set_file_path(obj, file_path) ==
    IF EndsWith(file_path, <<".stl">>)
    THEN Mesh(obj)
    ELSE IF EndsWithAny(file_path, supported_volume_extensions)
         THEN Volume(obj)
         ELSE obj

\* index in Scene.objects of the object Scene.get_object returns, 0 for None
get_object(objs, id) ==
    IF \E k \in DOMAIN objs : objs[k].id = id
    THEN CHOOSE k \in DOMAIN objs :
            objs[k].id = id /\ \A j \in 1..(k - 1) : objs[j].id # id
    ELSE 0

\* Scene.on_selected_changed: an object for each selected item that has none.
\* state.selected is the dict GirderFileSelector keys by item id; the loop is
\* taken over its items, as its body (item["_id"]) reads them
RECURSIVE on_selected_changed(_, _)
on_selected_changed(objs, sel) ==
    IF sel = <<>> THEN objs
    ELSE on_selected_changed(
            IF get_object(objs, sel[1].id) = 0
            THEN Append(objs, SceneObject(sel[1].id, "none"))
            ELSE objs,
            Tail(sel))

(* The views as a record s: data, viewers, cur (the cursor), pos and nrm     *)
(* (state.position and state.normals)                                        *)

AppViews ==
    [data |-> data, viewers |-> viewers, cur |-> cursor, pos |-> position, nrm |-> normals]

ViewWorld(s, v) ==
    [reg |-> s.data[v], vw |-> IF v \in SliceViews THEN s.viewers[v] ELSE NoViewer,
     cur |-> s.cur, log |-> <<>>, axis |-> Orientation(v)]

Put(s, v, w) ==
    IF v \in SliceViews
    THEN [s EXCEPT !.data[v] = w.reg, !.viewers[v] = w.vw, !.cur = w.cur]
    ELSE [s EXCEPT !.data[v] = w.reg]

\* state.flush() after position / normals changed: on_cursor_changed of each slice view
RECURSIVE flush_cursor(_, _)
flush_cursor(s, vs) ==
    IF vs = <<>> THEN s
    ELSE flush_cursor(
            IF vs[1] \in SliceViews
            THEN Put(s, vs[1], on_cursor_changed(ViewWorld(s, vs[1]), Orientation(vs[1]),
                                                 s.pos, s.nrm))
            ELSE s,
            Tail(vs))

(* Presets and the property of a volume of the 3D view. A transfer function  *)
(* is the sequence of its nodes, (x, r, g, b) for colors and (x, opacity)    *)
(* for opacities; an array is the number of its values followed by them      *)

\* None, as a preset
NoPreset ==
    [name |-> "none", colorTransfer |-> <<>>, scalarOpacity |-> <<>>, shade |-> 0]

\* the presets parse_slicer_presets reads from slicer_presets.xml, their
\* colorTransfer and scalarOpacity as string_to_array gives them
Presets ==
    << [name |-> "CT-AAA",
        colorTransfer |-> <<8, 0, 0, 0, 0, 10, 9, 9, 9>>,
        scalarOpacity |-> <<4, 0, 0, 10, 9>>, shade |-> 1],
       [name |-> "CT-Cardiac3",
        colorTransfer |-> <<8, 0, 0, 0, 0, 10, 9, 2, 2>>,
        scalarOpacity |-> <<4, 0, 0, 10, 5>>, shade |-> 1],
       [name |-> "MR-Default",
        colorTransfer |-> <<12, 0, 0, 0, 0, 5, 4, 4, 4, 10, 9, 9, 9>>,
        scalarOpacity |-> <<6, 0, 0, 5, 2, 10, 9>>, shade |-> 0] >>

PresetNames == {Presets[k].name : k \in DOMAIN Presets}

\* PresetParser.get_preset_by_name
get_preset_by_name(name) ==
    IF name \in PresetNames
    THEN Presets[CHOOSE k \in DOMAIN Presets :
                    Presets[k].name = name /\ \A j \in 1..(k - 1) : Presets[j].name # name]
    ELSE NoPreset

\* PresetParser.array_to_function: the nodes of the array, their x moved from
\* the range of the array to array_range
array_to_function(xrgbs, array_range, number_of_components) ==
    LET values == Tail(xrgbs)
        orig_range == <<values[1], values[Len(values) - number_of_components + 1]>>
        orig_size == orig_range[2] - orig_range[1]
        array_range_size == array_range[2] - array_range[1]
        node(i) == SubSeq(values, (i - 1) * number_of_components + 1,
                          i * number_of_components)
    IN  [i \in 1..(Len(values) \div number_of_components) |->
            [node(i) EXCEPT ![1] = array_range[1]
                + (array_range_size * (node(i)[1] - orig_range[1])) \div orig_size]]

\* the values of the nodes of a transfer function, one after the other
RECURSIVE Flat(_)
Flat(function) == IF function = <<>> THEN <<>> ELSE function[1] \o Flat(Tail(function))

\* PresetParser.color_transfer_function_to_array, opacity_function_to_array
function_to_array(function, number_of_components) ==
    <<number_of_components * Len(function)>> \o Flat(function)

\* the chunks same_arrays cuts an array into: the values of each node but its x
Chunks(array, number_of_components) ==
    [i \in 1..((Len(array) - 1) \div number_of_components) |->
        SubSeq(array, (i - 1) * number_of_components + 3, i * number_of_components + 1)]

\* PresetParser.same_arrays: the list of the comparisons of the chunks, or
\* False (here the empty list, as false as it) when the sizes differ
same_arrays(array_1, array_2, number_of_components) ==
    LET chunks1 == Chunks(array_1, number_of_components)
        chunks2 == Chunks(array_2, number_of_components)
        shorter == IF Len(chunks1) <= Len(chunks2) THEN Len(chunks1) ELSE Len(chunks2)
    IN  IF array_1[1] # array_2[1] THEN <<>>
        ELSE [i \in 1..shorter |-> chunks1[i] = chunks2[i]]

\* the truth value Python gives a list
Truthy(list) == Len(list) > 0

\* vtkColorTransferFunction.GetRange
GetRange(function) == <<function[1][1], function[Len(function)][1]>>

\* PresetParser.has_preset, for a preset of the catalog
has_preset(volume_property, preset, range) ==
    IF GetRange(volume_property.colors) # range THEN FALSE
    ELSE IF ~Truthy(same_arrays(function_to_array(volume_property.colors, 4),
                                preset.colorTransfer, 4)) THEN FALSE
    ELSE IF ~Truthy(same_arrays(function_to_array(volume_property.opacities, 2),
                                preset.scalarOpacity, 2)) THEN FALSE
    ELSE TRUE

\* PresetParser.apply_slicer_preset: the property it leaves, what it returns
\* and whether it raises (preset.get of None)
apply_slicer_preset(preset, volume_property, range) ==
    IF preset = NoPreset
    THEN [property |-> volume_property, returned |-> FALSE, raised |-> TRUE]
    ELSE IF has_preset(volume_property, preset, range)
    THEN [property |-> volume_property, returned |-> FALSE, raised |-> FALSE]
    ELSE [property |-> [colors |-> array_to_function(preset.colorTransfer, range, 4),
                        opacities |-> array_to_function(preset.scalarOpacity, range, 2),
                        shade |-> preset.shade],
          returned |-> TRUE, raised |-> FALSE]

\* the vtkVolumeProperty render_volume_in_3D constructs, shading on
vtkVolumeProperty ==
    [colors |-> <<<<0, 0, 0, 0>>, <<1024, 1, 1, 1>>>>,
     opacities |-> <<<<0, 1>>, <<1024, 1>>>>,
     shade |-> 1]

\* render_volume_in_3D: a new vtkVolume with the preset "CT-Cardiac3" at the
\* scalar range of the image
render_volume_in_3D(reg, image_data) ==
    [kind |-> "volume", img |-> image_data, h |-> NewHandle(reg),
     property |-> apply_slicer_preset(get_preset_by_name("CT-Cardiac3"),
                                      vtkVolumeProperty,
                                      ScalarRange(image_data)).property]

\* ThreeDView.add_volume
ThreeDView_add_volume(w, image_data, data_id) ==
    update([w EXCEPT !.reg = register_data(w.reg, data_id,
                                           render_volume_in_3D(w.reg, image_data))])

\* ThreeDView.set_volume_preset: m.w is the view it leaves, m.raised whether
\* it raises (no preset of that name, or a renderable that is no vtkVolume)
ThreeDView_set_volume_preset(w, data_id, preset_name, range) ==
    LET preset == get_preset_by_name(preset_name)
        volume == get_data(w.reg, data_id)
        r == apply_slicer_preset(preset, volume.property, range)
    IN  IF volume = NoObj THEN [w |-> w, raised |-> FALSE]
        ELSE IF volume.kind # "volume" \/ r.raised THEN [w |-> w, raised |-> TRUE]
        ELSE IF r.returned
        THEN [w |-> update([w EXCEPT !.reg = Replaced(w.reg, volume,
                                        [volume EXCEPT !.property = r.property])]),
              raised |-> FALSE]
        ELSE [w |-> w, raised |-> FALSE]

\* ThreeDView.add_mesh
ThreeDView_add_mesh(w, poly_data, data_id) ==
    update([w EXCEPT !.reg = register_data(w.reg, data_id,
                [kind |-> "actor", img |-> poly_data, h |-> NewHandle(w.reg),
                 color |-> Red, opacity |-> 100])])

\* view.add_volume(data, id) of one of the views, with
\* on_reslice_cursor_interaction after a primary was made
add_volume(s, v, image_data, data_id) ==
    IF v \notin SliceViews
    THEN Put(s, v, ThreeDView_add_volume(ViewWorld(s, v), image_data, data_id))
    ELSE LET was == has_primary_volume(s.data[v])
             w1 == SliceView_add_volume(ViewWorld(s, v), image_data, data_id)
             s1 == Put(s, v, w1)
             s2 == [s1 EXCEPT !.pos = w1.cur.center, !.nrm = w1.cur.normals]
         IN  IF was THEN s1
             ELSE IF s.pos # s2.pos \/ s.nrm # s2.nrm THEN flush_cursor(s2, QuadViews)
             ELSE s2

\* view.add_mesh(data, id) of one of the views
add_mesh(s, v, poly_data, data_id) ==
    IF v \notin SliceViews
    THEN Put(s, v, ThreeDView_add_mesh(ViewWorld(s, v), poly_data, data_id))
    ELSE Put(s, v, SliceView_add_mesh(ViewWorld(s, v), poly_data, data_id))

\* VtkView.get_actors, as the test of the registry entry e: the actors of
\* data_id when the view has data_id, of every id otherwise
in_get_actors(reg, data_id, e) == data_id \in RegIds(reg) => e.id = data_id

\* the registry once f has been applied to each actor of get_actors(data_id)
map_actors(reg, data_id, f(_)) ==
    [k \in DOMAIN reg |->
        IF in_get_actors(reg, data_id, reg[k])
        THEN [reg[k] EXCEPT !.objs = [j \in DOMAIN @ |->
                                        IF @[j].kind = "actor" THEN f(@[j]) ELSE @[j]]]
        ELSE reg[k]]

\* VtkView.set_mesh_opacity
set_mesh_opacity(w, data_id, opacity) ==
    LET set(actor) == [actor EXCEPT !.opacity = opacity]
        reg == map_actors(w.reg, data_id, set)
    IN  IF reg # w.reg THEN update([w EXCEPT !.reg = reg]) ELSE w

\* VtkView.set_mesh_color
set_mesh_color(w, data_id, color) ==
    LET set(actor) == [actor EXCEPT !.color = color]
        reg == map_actors(w.reg, data_id, set)
    IN  IF reg # w.reg THEN update([w EXCEPT !.reg = reg]) ELSE w

\* Mesh._on_change: the loops of _on_opacity_change and _on_color_change over
\* self.views
RECURSIVE Mesh_on_opacity_change(_, _, _), Mesh_on_color_change(_, _, _)
Mesh_on_opacity_change(s, vs, obj) ==
    IF vs = <<>> THEN s
    ELSE Mesh_on_opacity_change(
            Put(s, vs[1], set_mesh_opacity(ViewWorld(s, vs[1]), obj.id, obj.opacity)),
            Tail(vs), obj)

Mesh_on_color_change(s, vs, obj) ==
    IF vs = <<>> THEN s
    ELSE Mesh_on_color_change(
            Put(s, vs[1], set_mesh_color(ViewWorld(s, vs[1]), obj.id, obj.color)),
            Tail(vs), obj)

Mesh_on_change(s, vs, obj) ==
    Mesh_on_color_change(Mesh_on_opacity_change(s, vs, obj), vs, obj)

\* get_random_color: the next color of the series, one no object has
get_random_color(objs) ==
    CHOOSE n \in 1..(Len(objs) + 1) :
        /\ \A k \in DOMAIN objs : objs[k].color # n
        /\ \A m \in 1..(n - 1) : \E k \in DOMAIN objs : objs[k].color = m

\* the loop of SceneObject.load over self.views: _add_to_view
RECURSIVE add_to_views(_, _, _, _, _)
add_to_views(s, vs, data_type, dat, id) ==
    IF vs = <<>> THEN s
    ELSE add_to_views(
            IF data_type = "volume"
            THEN add_volume(s, vs[1], dat, id)
            ELSE add_mesh(s, vs[1], dat, id),
            Tail(vs), data_type, dat, id)

\* the loop of QuadView.remove_data over self.views
RECURSIVE remove_from_views(_, _, _)
remove_from_views(s, vs, data_id) ==
    IF vs = <<>> THEN s
    ELSE remove_from_views(
            IF vs[1] \in SliceViews
            THEN Put(s, vs[1], SliceView_unregister_data(ViewWorld(s, vs[1]), data_id,
                                                         FALSE, NoObj))
            ELSE Put(s, vs[1], VtkView_unregister_data(ViewWorld(s, vs[1]), data_id,
                                                       FALSE, NoObj)),
            Tail(vs), data_id)

\* mutant: the data is removed from the first view only
QuadView_remove_data_first(s, data_id) ==
    remove_from_views(s, SubSeq(QuadViews, 1, 1), data_id)

\* QuadView.remove_data
QuadView_remove_data(s, data_id) == remove_from_views(s, QuadViews, data_id)

\* the loops of Volume._on_opacity_change and _on_window_level_change over
\* self.twod_views
RECURSIVE on_opacity_change(_, _, _), on_window_level_change(_, _, _)
on_opacity_change(s, vs, obj) ==
    IF vs = <<>> THEN s
    ELSE on_opacity_change(
            IF vs[1] \in SliceViews
            THEN Put(s, vs[1], set_volume_opacity(ViewWorld(s, vs[1]), obj.id, obj.opacity))
            ELSE s,
            Tail(vs), obj)

on_window_level_change(s, vs, obj) ==
    IF vs = <<>> THEN s
    ELSE on_window_level_change(
            IF vs[1] \in SliceViews
            THEN Put(s, vs[1], set_volume_window_level_min_max(ViewWorld(s, vs[1]), obj.id,
                                                               obj.window_level_min_max))
            ELSE s,
            Tail(vs), obj)

\* the loop of Volume._on_preset_change over self.threed_views: m.s the views
\* it leaves, m.raised whether a set_volume_preset raised
RECURSIVE on_preset_change(_, _, _)
on_preset_change(s, vs, obj) ==
    IF vs = <<>> THEN [s |-> s, raised |-> FALSE]
    ELSE IF vs[1] \in SliceViews THEN on_preset_change(s, Tail(vs), obj)
    ELSE LET m == ThreeDView_set_volume_preset(ViewWorld(s, vs[1]), obj.id, obj.preset,
                                               obj.preset_range)
         IN  IF m.raised THEN [s |-> s, raised |-> TRUE]
             ELSE on_preset_change(Put(s, vs[1], m.w), Tail(vs), obj)

\* Volume._on_change; Volume.last_preset_name becomes obj.preset
on_change(s, vs, obj) ==
    on_preset_change(on_window_level_change(on_opacity_change(s, vs, obj), vs, obj), vs, obj)

\* Volume.is_primary
is_primary(s, vs, id) ==
    \E k \in DOMAIN vs : vs[k] \in SliceViews /\ is_primary_volume(s.data[vs[k]], id)

\* the volume m.obj marked once view has been flushed, changed being the
\* outcome of the flush: the volume that is a primary gets the opacity -1, and
\* is_secondary is published as not is_primary()
Volume_marked(m, changed) ==
    [s |-> changed.s,
     obj |-> IF is_primary(changed.s, views, m.obj.id)
             THEN [m.obj EXCEPT !.opacity = -100, !.is_secondary = FALSE]
             ELSE [m.obj EXCEPT !.is_secondary = TRUE],
     raised |-> changed.raised]

\* the flush of a view the volume was added to, s1 being the views after the
\* add: when the view got its primary, the listener _on_change of the id runs
Volume_flushed(m, flushes, s1) ==
    Volume_marked(m, IF flushes THEN on_change(s1, views, m.obj)
                     ELSE [s |-> s1, raised |-> FALSE])

\* Volume._add_to_view
Volume_add_to_view(m, view) ==
    Volume_flushed(m, view \in SliceViews /\ ~has_primary_volume(m.s.data[view]),
                   add_volume(m.s, view, m.obj.data, m.obj.id))

\* the loop of SceneObject.load over self.views for a Volume, by
\* Volume._add_to_view: the flush of a slice view that made the volume its
\* primary runs the listener _on_change of the id, which the setters of the
\* object have made dirty; the volume that is a primary gets the opacity -1.
\* m.s is the views, m.obj the object, m.raised whether _on_change raised
RECURSIVE Volume_add_to_views(_, _)
Volume_add_to_views(m, vs) ==
    IF vs = <<>> \/ m.raised THEN m
    ELSE Volume_add_to_views(Volume_add_to_view(m, vs[1]), Tail(vs))

\* what upgraded_obj.load(file_path) leaves once the views have the volume vol,
\* added being the outcome of the loop over the views
Volume_loaded(objs, k, vol, added) ==
    IF added.raised
    THEN [s |-> added.s, objects |-> [objs EXCEPT ![k] = added.obj], raised |-> TRUE,
          lpn |-> vol.preset]
    ELSE [s |-> added.s,
          objects |-> [objs EXCEPT ![k] = [added.obj EXCEPT !.loaded = TRUE,
                                                           !.loading = FALSE]],
          raised |-> FALSE, lpn |-> vol.preset]

\* Volume.load from its first _on_change, whose outcome is changed, on
Volume_changed(objs, k, vol, changed) ==
    IF changed.raised
    THEN [s |-> changed.s, objects |-> [objs EXCEPT ![k] = vol], raised |-> TRUE,
          lpn |-> vol.preset]
    ELSE Volume_loaded(objs, k, vol,
            Volume_add_to_views([s |-> changed.s, obj |-> vol, raised |-> FALSE], views))

\* Volume.load once the file is read: the scalar range is the window/level and
\* the range of the preset, the preset is Volume.last_preset_name or the first
\* of state.presets; _on_change runs before the views have the volume
Volume_load(s, objs, k, vol) ==
    Volume_changed(objs, k, vol, on_change(s, views, vol))

\* the object once load_volume has returned dat
Volume_set(obj, dat) ==
    [obj EXCEPT !.loading = TRUE, !.data = dat,
                !.window_level_min_max = ScalarRange(dat),
                !.preset = IF Len(Presets) > 0
                           THEN IF last_preset_name # "none"
                                THEN last_preset_name
                                ELSE Presets[1].name
                           ELSE "none",
                !.preset_range = ScalarRange(dat)]

\* the object once load_mesh has returned dat
Mesh_set(objs, k, dat) ==
    [objs[k] EXCEPT !.loading = TRUE, !.data = dat, !.color = get_random_color(objs)]

\* Mesh.load once the file is read: _on_change runs before the views have the
\* mesh; the flush the load task ends with runs the listener _on_change of the
\* id, which the setters of the object have made dirty
Mesh_load(s, objs, k, mesh) ==
    [s |-> Mesh_on_change(
               add_to_views(Mesh_on_change(s, views, mesh), views, "mesh", mesh.data,
                            mesh.id),
               views, mesh),
     objects |-> [objs EXCEPT ![k] = [mesh EXCEPT !.loaded = TRUE, !.loading = FALSE]],
     raised |-> FALSE, lpn |-> last_preset_name]

\* the load of the object objs[k], dat being what load_volume or load_mesh
\* returned ("none" when it raised, obj.data for a SceneObject)
load_data(s, objs, k, dat) ==
    IF objs[k].type # "none" /\ dat = "none"
    THEN [s |-> s, objects |-> [objs EXCEPT ![k].loading = TRUE], raised |-> TRUE,
          lpn |-> last_preset_name]
    ELSE IF dat = "none" /\ views # <<>>
    THEN [s |-> s, objects |-> objs, raised |-> TRUE, lpn |-> last_preset_name]
    ELSE IF objs[k].type = "volume"
    THEN Volume_load(s, objs, k, Volume_set(objs[k], dat))
    ELSE IF objs[k].type = "mesh"
    THEN Mesh_load(s, objs, k, Mesh_set(objs, k, dat))
    ELSE [s |-> add_to_views(s, views, objs[k].type, dat, objs[k].id),
          objects |-> [objs EXCEPT ![k].data = dat, ![k].loaded = TRUE,
                                   ![k].loading = FALSE],
          raised |-> FALSE, lpn |-> last_preset_name]

\* upgraded_obj.load(file_path): Volume.load, Mesh.load or SceneObject.load by
\* the class of the object; raised tells whether an exception left it, lpn is
\* Volume.last_preset_name. The assert of SceneObject._add_to_view fails for an
\* object without data at the first view of the loop
load(s, objs, k, file_path) ==
    load_data(s, objs, k,
              IF objs[k].type = "volume" THEN load_volume(file_path)
              ELSE IF objs[k].type = "mesh" THEN load_mesh(file_path)
              ELSE objs[k].data)

\* Scene.load_file
load_file(s, objs, file_path, data_id) ==
    LET k == get_object(objs, data_id)
    IN  IF k = 0
        THEN [s |-> s, objects |-> objs, raised |-> FALSE, lpn |-> last_preset_name]
        ELSE load(s, [objs EXCEPT ![k] = set_file_path(objs[k], file_path)], k, file_path)

SelectedIds == {selected[k].id : k \in DOMAIN selected}

\* mutant: the item stays in state.selected
Pop_keeps_item(sel, id) == sel

\* state.selected.pop(id)
Pop(sel, id) == SelectSeq(sel, LAMBDA e : e.id # id)

\* mutant: the end of a load task clears the flag of every item
load_finally_clears_all(loading, item) == {}

\* the finally clause of load(): item["loading"] = False
load_finally(loading, item) == loading \ {item}

\* the item dict of a click: an object no selection and no task refers to
NewItem ==
    LET used == {selected[k].item : k \in DOMAIN selected} \cup {t.item : t \in tasks}
    IN  CHOOSE n \in 1..(Cardinality(used) + 1) :
            n \notin used /\ \A m \in 1..(n - 1) : m \in used

ViewsUnchanged == UNCHANGED <<data, viewers, cursor, position, normals, redraws>>

Init == SvInit

\* time() advances by a second, up to MaxTime
Tick ==
    /\ now < MaxTime
    /\ now' = now + 1
    /\ last' = [op |-> "tick", id |-> NoId]
    /\ UNCHANGED <<selected, itemLoading, objects, views, tasks, last_clicked>>
    /\ SettingsUnchanged
    /\ ViewsUnchanged

\* GirderFileSelector.toggle_item(item) on a row click, a second or more after
\* the last accepted click: select_item and create_load_task when the item is
\* not selected; the flush runs Scene.on_selected_changed
ToggleItem(id) ==
    /\ now < MaxTime          \* the sleep of the task it creates ends by MaxTime
    /\ now - last_clicked >= 1
    /\ last_clicked' = now
    /\ IF id \in SelectedIds
       THEN /\ UNCHANGED <<selected, itemLoading, objects, tasks>>
            /\ last' = [op |-> "toggle_item", id |-> id]
       ELSE LET item == NewItem
            IN  /\ selected' = Append(selected, [id |-> id, item |-> item])
                /\ itemLoading' = itemLoading \cup {item}
                /\ objects' = on_selected_changed(objects, selected')
                /\ tasks' = tasks \cup {[id |-> id, item |-> item, wake |-> now + 1]}
                /\ last' = [op |-> "select_item", id |-> id]
    /\ UNCHANGED <<now, views>>
    /\ SettingsUnchanged
    /\ ViewsUnchanged

\* the unselect_item trigger, on a selected item
UnselectItem(id) ==
    /\ id \in SelectedIds
    /\ LET s == QuadView_remove_data(AppViews, id)
       IN  /\ data' = s.data
           /\ viewers' = s.viewers
           /\ cursor' = s.cur
    /\ selected' = Pop(selected, id)
    /\ objects' = on_selected_changed(objects, selected')
    /\ last' = [op |-> "unselect_item", id |-> id]
    /\ UNCHANGED <<position, normals, redraws, itemLoading, views, tasks, now, last_clicked>>
    /\ SettingsUnchanged

\* the load() coroutine of create_load_task after its sleep: load_item(item),
\* then the finally clause. files is the number of files the asset store lists
\* for the item; fetched tells whether the with statement over fetch_file
\* yields the path of the file or raises (download, cache and the context
\* manager of FileFetcher are the environment of the task)
LoadItem(t, files, fetched) ==
    /\ t \in tasks
    /\ now >= t.wake
    /\ fetched => files = 1
    /\ \E r \in {IF fetched
                  THEN load_file(AppViews, objects, PathOf(t.id), t.id)
                  ELSE [s |-> AppViews, objects |-> objects, raised |-> TRUE,
                        lpn |-> last_preset_name]} :
       \E is_selected \in {t.id \in SelectedIds} :
       \E s \in {IF r.raised /\ is_selected THEN QuadView_remove_data(r.s, t.id) ELSE r.s} :
           /\ data' = s.data
           /\ viewers' = s.viewers
           /\ cursor' = s.cur
           /\ position' = s.pos
           /\ normals' = s.nrm
           /\ selected' = IF r.raised /\ is_selected THEN Pop(selected, t.id) ELSE selected
           /\ objects' = on_selected_changed(r.objects, selected')
           /\ last_preset_name' = r.lpn
           /\ GestureUnchanged
           /\ last' = [op |-> "load_item", id |-> t.id, item |-> t.item, files |-> files,
                       fetched |-> fetched, raised |-> r.raised,
                       was_selected |-> is_selected,
                       escaped |-> r.raised /\ ~is_selected]
    /\ itemLoading' = load_finally(itemLoading, t.item)
    /\ tasks' = tasks \ {t}
    /\ UNCHANGED <<redraws, views, now, last_clicked>>

\* ctrl.clear(): Scene.clear empties Scene.objects. A Volume or a Mesh stays
\* referenced by the listener its constructor registered with state.change, so
\* no __del__ runs; the __del__ of an object without data does nothing
Clear ==
    /\ objects # <<>>
    /\ objects' = <<>>
    /\ last' = [op |-> "clear", id |-> NoId]
    /\ UNCHANGED <<selected, itemLoading, views, tasks, now, last_clicked>>
    /\ SettingsUnchanged
    /\ ViewsUnchanged

Next ==
    \/ Tick
    \/ \E id \in Items : ToggleItem(id)
    \/ \E id \in Items : UnselectItem(id)
    \/ \E t \in tasks, files \in 0..2, fetched \in BOOLEAN : LoadItem(t, files, fetched)

Spec == Init /\ [][Next]_vars

\* the scene as Scene.__init__ leaves it: no view attached
DetachedInit == Constructed(<<>>)

DetachedSpec == DetachedInit /\ [][Next]_vars

\* the application with the clear operation of the scene in use
ClearNext ==
    \/ Next
    \/ Clear

ClearSpec == Init /\ [][ClearNext]_vars

----------------------------------------------------------------------------
(* Claims on the selection and the load tasks *)

\* C5: when the asset store lists zero files, or more than one, for an item
\* that is selected, the load task ends with the item out of the selected set
\* and with no view registry holding a renderable under its id
C5_FailedLoadRollsBack ==
    (last.op = "load_item" /\ last.files # 1 /\ last.was_selected)
        => /\ last.id \notin SelectedIds
           /\ \A v \in Views : last.id \notin RegIds(data[v])

\* a load task of a selected item found two files and rolled the selection back
C5_Witness ==
    /\ last.op = "load_item"
    /\ last.files = 2
    /\ last.was_selected
    /\ last.id \notin SelectedIds

\* C6: after an item is deselected, by the user or by the rollback of a failed
\* load, Scene.objects holds no object with the id of the item
C6_NoObjectAfterDeselect ==
    (\/ last.op = "unselect_item"
     \/ (last.op = "load_item" /\ last.raised /\ last.was_selected))
        => get_object(objects, last.id) = 0

\* C31: when no load task is outstanding, every id a view has a renderable
\* under is the id of a selected item
C31_NoRenderableOfDeselected ==
    tasks = {} => \A v \in Views : \A id \in RegIds(data[v]) : id \in SelectedIds



\* C34: for every loaded volume of a selected item, is_secondary is published
\* false and the opacity is published -1 exactly when is_primary() is true
C34_PublishedPrimary ==
    \A k \in DOMAIN objects :
        (/\ objects[k].type = "volume" /\ objects[k].loaded
         /\ objects[k].id \in SelectedIds)
            => ((~objects[k].is_secondary /\ objects[k].opacity = -100)
                    <=> is_primary(AppViews, views, objects[k].id))

\* the item id view v reports as its primary volume, NoId when it has none
PrimaryOf(v) == get_data_id(data[v], get_reslice_image_viewer(data[v], NoId))

\* C38: the three slice views report the same item id as their primary
\* volume, or all three report none
C38_SamePrimary ==
    \A v1, v2 \in SliceViews : PrimaryOf(v1) = PrimaryOf(v2)

\* a volume was unselected while another one was shown: the second volume is
\* the primary of the three slice views
C38_Witness ==
    /\ last.op = "unselect_item"
    /\ \A v \in SliceViews : PrimaryOf(v) \notin {NoId, last.id}

\* C7: at most one load task is outstanding for an item id
C7_OneTaskPerItem ==
    \A t1, t2 \in tasks : t1.id = t2.id => t1 = t2

\* C8: the loading flag of an item is true while its load task is outstanding
\* and false once the task has finished, by success or by failure; the end of
\* the load of another item does not clear it
C8_LoadingFlag ==
    /\ \A t \in tasks : t.item \in itemLoading
    /\ \A item \in itemLoading : \E t \in tasks : t.item = item
    /\ \A k \in DOMAIN selected :
          selected[k].item \in itemLoading <=> \E t \in tasks : t.item = selected[k].item
    /\ last.op = "load_item" => last.item \notin itemLoading

\* the load of an item failed while another selected item is still loading
C8_Witness ==
    /\ last.op = "load_item"
    /\ last.raised
    /\ \E k \in DOMAIN selected :
          /\ selected[k].id # last.id
          /\ selected[k].item \in itemLoading

\* C9: no exception raised while an item loads leaves the load task
C9_NoExceptionEscapes ==
    last.op = "load_item" => ~last.escaped

\* C10: when the file of an item has been fetched, the unresolved object of the
\* item is replaced, at its place in Scene.objects and under its id, by a
\* Volume when the path ends with a supported volume extension and by a Mesh
\* when it ends with a supported mesh extension, and every view is given the
\* data under the id
C10_ObjectUpgraded ==
    [][LET id == last'.id
           k == get_object(objects, id)
           file_path == PathOf(id)
           class == IF EndsWithAny(file_path, supported_volume_extensions) THEN "volume"
                    ELSE IF EndsWithAny(file_path, supported_mesh_extensions) THEN "mesh"
                    ELSE "none"
       IN  (/\ last'.op = "load_item"
            /\ last'.fetched
            /\ k # 0
            /\ objects[k].type = "none"
            /\ class # "none")
               => /\ Len(objects') = Len(objects)
                  /\ objects'[k].id = id
                  /\ objects'[k].type = class
                  /\ \A v \in Views :
                        Len(RegObjs(data'[v], id)) = Len(RegObjs(data[v], id)) + 1]_vars

\* C11: the load of a file whose extension is in neither supported set fails,
\* with views attached to the scene or with none: the object is not marked
\* loaded, no view registers a renderable under its id and the item is
\* deselected
C11_UnsupportedExtensionFails ==
    LET id == last.id
        k == get_object(objects, id)
    IN  (/\ last.op = "load_item"
         /\ last.fetched
         /\ ~EndsWithAny(PathOf(id), supported_volume_extensions)
         /\ ~EndsWithAny(PathOf(id), supported_mesh_extensions))
            => /\ k # 0 => ~objects[k].loaded
               /\ \A v \in Views : id \notin RegIds(data[v])
               /\ id \notin SelectedIds

\* C12: after the clear operation Scene.objects is empty and so is the
\* registry of every view
C12_ClearEmptiesEverything ==
    last.op = "clear" =>
        /\ objects = <<>>
        /\ \A v \in Views : data[v] = EmptyRegistry

----------------------------------------------------------------------------
(* The views under their controls: two volumes are selected, their load      *)
(* tasks have ended their sleep, and the cursor, the sliders and the display *)
(* settings of the views are driven call by call                             *)

\* the state of the application once "a" then "b" were clicked, a second apart,
\* and a second more has passed
Selected ==
    /\ data = [v \in Views |-> EmptyRegistry]
    /\ viewers = [v \in SliceViews |-> NoViewer]
    /\ cursor = InitialCursor
    /\ position = NoPoint
    /\ normals = NoPoint
    /\ redraws = <<>>
    /\ selected = <<[id |-> "a", item |-> 1], [id |-> "b", item |-> 2]>>
    /\ itemLoading = {1, 2}
    /\ objects = on_selected_changed(<<>>, selected)
    /\ views = QuadViews
    /\ tasks = {[id |-> "a", item |-> 1, wake |-> 2], [id |-> "b", item |-> 2, wake |-> 3]}
    /\ now = 3
    /\ last_clicked = 2
    /\ last = [op |-> "tick", id |-> NoId]
    /\ last_preset_name = "none"
    /\ obliques_visibility = TRUE
    /\ debounce_tasks = NoTasks
    /\ calls = <<>>
    /\ animation = {}
    /\ fetcher = FileFetcher(FALSE, "No")

\* a load task that finds the one file of its item
LoadVolume == \E t \in tasks : LoadItem(t, 1, TRUE)

\* set_reslice_center(viewer, p), viewer being get_reslice_image_viewer() of view v
SetResliceCenter(v, p) ==
    /\ LET w == World(v)
           viewer == get_reslice_image_viewer(w.reg, NoId)
       IN  /\ cursor' = set_reslice_center(w, viewer, p).cur
           /\ last' = [op |-> "set_reslice_center", id |-> NoId, view |-> v,
                       viewer |-> viewer # NoObj, point |-> p,
                       before |-> cursor.center,
                       returned |-> set_reslice_center_returned(w, viewer, p)]
    /\ UNCHANGED <<data, viewers, position, normals, redraws>>
    /\ OrchestratorUnchanged

\* set_reslice_normal(viewer, n, axis) on the viewer and the axis of view v
SetResliceNormal(v, n) ==
    /\ LET w == World(v)
           viewer == get_reslice_image_viewer(w.reg, NoId)
       IN  /\ cursor' = set_reslice_normal(w, viewer, n, Orientation(v)).cur
           /\ last' = [op |-> "set_reslice_normal", id |-> NoId, view |-> v,
                       viewer |-> viewer # NoObj, value |-> n,
                       before |-> cursor.normals[Orientation(v) + 1],
                       returned |-> set_reslice_normal_returned(w, viewer, n,
                                                                Orientation(v))]
    /\ UNCHANGED <<data, viewers, position, normals, redraws>>
    /\ OrchestratorUnchanged

\* opacities, in percent, a client may ask for
Opacities == {50, 100}

\* (window, level) pairs a client may ask for
WindowLevels == {<<100, 50>>, <<200, 100>>}

\* view.set_volume_opacity(data_id, opacity) on view v
SetVolumeOpacity(v, data_id, opacity) ==
    /\ LET w == World(v)
           viewer == get_reslice_image_viewer(w.reg, data_id)
           w1 == set_volume_opacity(w, data_id, opacity)
       IN  /\ data' = [data EXCEPT ![v] = w1.reg]
           /\ viewers' = [viewers EXCEPT ![v] = w1.vw]
           /\ redraws' = w1.log
           /\ last' = [op |-> "set_volume_opacity", id |-> data_id, view |-> v,
                       value |-> opacity,
                       viewer |-> viewer # NoObj,
                       viewer_before |-> w.vw.opacity,
                       viewer_returned |-> set_reslice_opacity_returned(w, viewer, opacity),
                       slices |-> get_image_slices(w.reg, data_id),
                       modified |-> set_volume_opacity_setters(w, data_id, opacity).modified]
    /\ UNCHANGED <<cursor, position, normals>>
    /\ OrchestratorUnchanged

\* view.set_volume_window_level(data_id, window_level) on view v
SetVolumeWindowLevel(v, data_id, window_level) ==
    /\ LET w == World(v)
           viewer == get_reslice_image_viewer(w.reg, data_id)
           w1 == set_volume_window_level(w, data_id, window_level)
       IN  /\ data' = [data EXCEPT ![v] = w1.reg]
           /\ viewers' = [viewers EXCEPT ![v] = w1.vw]
           /\ redraws' = w1.log
           /\ last' = [op |-> "set_volume_window_level", id |-> data_id, view |-> v,
                       value |-> window_level,
                       viewer |-> viewer # NoObj,
                       viewer_before |-> <<w.vw.window, w.vw.level>>,
                       viewer_returned |-> set_reslice_window_level_returned(
                                               w, viewer, window_level),
                       slices |-> get_image_slices(w.reg, data_id),
                       modified |-> set_volume_window_level_setters(
                                        w, data_id, window_level).modified]
    /\ UNCHANGED <<cursor, position, normals>>
    /\ OrchestratorUnchanged

ControlNext ==
    \/ LoadVolume
    \/ \E v \in SliceViews, p \in Points \cup {ImageCenter("ct")} : SetResliceCenter(v, p)
    \/ \E n \in {DefaultNormals[1], RotatedNormals[1]} : SetResliceNormal(sv, n)
    \/ \E id \in {"a", "b"}, o \in Opacities : SetVolumeOpacity(sv, id, o)
    \/ \E id \in {"a", "b"}, wl \in WindowLevels : SetVolumeWindowLevel(sv, id, wl)

ControlSpec == Selected /\ [][ControlNext]_vars

\* most steps of a slider
MaxSlice == 4

\* view.set_slice(slice) on view v: the position of the slice is published and
\* the flush runs on_cursor_changed of every slice view. get_slice_range() and
\* get_slice() are read before it, and the index of the position it computes
SetSlice(v, slice) ==
    /\ LET w == World(v)
           axis == Orientation(v)
           viewer == get_reslice_image_viewer(w.reg, NoId)
       IN  \E pos \in {get_position_from_slice_index(w, slice, viewer, axis)} :
           \E flushed \in {pos # NoPoint /\ position # pos} :
           \E s \in {IF flushed
                      THEN flush_cursor([AppViews EXCEPT !.pos = pos], QuadViews)
                      ELSE AppViews} :
               /\ data' = s.data
               /\ viewers' = s.viewers
               /\ cursor' = s.cur
               /\ position' = s.pos
               /\ normals' = s.nrm
               /\ last' = [op |-> "set_slice", id |-> NoId, view |-> v, slice |-> slice,
                           viewer |-> viewer # NoObj,
                           range |-> get_slice_range(w, axis),
                           current |-> get_slice(w, axis, position),
                           position |-> pos,
                           index |-> IF pos = NoPoint THEN NoIndex
                                     ELSE get_slice_index_from_position(w, pos, viewer,
                                                                        axis),
                           flushed |-> flushed]
    /\ UNCHANGED redraws
    /\ OrchestratorUnchanged

SliderNext ==
    \/ LoadVolume
    \/ \E v \in SliceViews, i \in 0..MaxSlice : SetSlice(v, i)

SliderSpec == Selected /\ [][SliderNext]_vars

\* the coordinates typed in a field of the position dialog
Coordinates == {Scale, 5 * Scale}

\* PositionDialog.set_position(value, index): the coordinate of state.position
\* is replaced and the flush runs on_cursor_changed of every slice view
SetPosition(value, index) ==
    /\ position # NoPoint
    /\ position[index + 1] # value
    /\ \E s \in {flush_cursor([AppViews EXCEPT !.pos = [position EXCEPT ![index + 1] = value]],
                               QuadViews)} :
           /\ data' = s.data
           /\ viewers' = s.viewers
           /\ cursor' = s.cur
           /\ position' = s.pos
           /\ normals' = s.nrm
    /\ last' = [op |-> "set_position", id |-> NoId, value |-> value, index |-> index]
    /\ UNCHANGED redraws
    /\ OrchestratorUnchanged

PositionNext ==
    \/ LoadVolume
    \/ \E id \in {"a", "b"} : UnselectItem(id)
    \/ \E value \in Coordinates, index \in 0..2 : SetPosition(value, index)

PositionSpec == Selected /\ [][PositionNext]_vars

(* Debounced calls (app/utils.py) *)

\* the wait of the debounced calls of the views, in ticks of the clock
Wait == 1

\* the calls of the wrapper a run makes at most
MaxCalls == 3

\* the objects with a __dict__ a call may have as its first argument
Instances == {"view1", "view2"}

\* the arguments of the calls
ArgLists == {<<>>, <<"x">>, <<"view1", "x">>, <<"view1", "y">>, <<"view2", "x">>}

\* the key of wrapper: (args[0], func) for what is likely a method, else func
debounce_key(func, args) ==
    IF Len(args) > 0 /\ args[1] \in Instances THEN <<args[1], func>> ELSE <<func>>

\* mutant: the task of the call before is left to sleep
cancel_nothing(loop, n) == loop

\* _debounce_tasks[key].cancel(): the task n leaves the loop without running func
cancel(loop, n) == {t \in loop : t.n # n}

\* wrapper(*args) of the debounced func at the time `time`: the task of the
\* key is cancelled and a new task, which sleeps wait and then runs
\* func(*args), is created and stored. dt.latest holds the _debounce_tasks of
\* every debounced function, their keys being apart
wrapper(dt, func, args, time) ==
    LET key == debounce_key(func, args)
        n == dt.created + 1
        loop == IF key \in DOMAIN dt.latest THEN cancel(dt.loop, dt.latest[key]) ELSE dt.loop
    IN  [latest |-> [k \in DOMAIN dt.latest \cup {key} |->
                        IF k = key THEN n ELSE dt.latest[k]],
         loop |-> loop \cup {[n |-> n, key |-> key, args |-> args, wake |-> time + Wait]},
         created |-> n,
         cancelled |-> dt.cancelled \cup {t.n : t \in dt.loop \ loop}]

\* a call of the debounced function
Call(args) ==
    /\ debounce_tasks.created < MaxCalls
    /\ now + Wait <= MaxTime          \* the sleep of the task ends by MaxTime
    /\ debounce_tasks' = wrapper(debounce_tasks, "func", args, now)
    /\ last' = [op |-> "call", id |-> NoId, key |-> debounce_key("func", args),
                args |-> args]
    /\ UNCHANGED <<selected, itemLoading, objects, views, tasks, now, last_clicked,
                   last_preset_name, obliques_visibility, calls, animation>>
    /\ ViewsUnchanged
    /\ UNCHANGED fetcher

\* delayed_execution of task t after its sleep: func(*args)
RunTask(t) ==
    /\ t \in debounce_tasks.loop
    /\ now >= t.wake
    /\ debounce_tasks' = [debounce_tasks EXCEPT !.loop = @ \ {t}]
    /\ calls' = Append(calls, [n |-> t.n, key |-> t.key, args |-> t.args, at |-> now])
    /\ last' = [op |-> "func", id |-> NoId, key |-> t.key, args |-> t.args]
    /\ UNCHANGED <<selected, itemLoading, objects, views, tasks, now, last_clicked,
                   last_preset_name, obliques_visibility, animation>>
    /\ ViewsUnchanged
    /\ UNCHANGED fetcher

Run == \E t \in debounce_tasks.loop : RunTask(t)

DebounceNext ==
    \/ Tick
    \/ \E args \in ArgLists : Call(args)
    \/ Run

DebounceSpec == Init /\ [][DebounceNext]_vars

\* the event loop runs: the clock advances and a task whose sleep ended resumes
DebounceLiveSpec == DebounceSpec /\ WF_vars(Tick) /\ WF_vars(Run)

(* The gestures on the cursor widget and the reset of the views *)

\* SliceView.DEBOUNCED_FLUSH
DEBOUNCED_FLUSH == FALSE

\* the centers a drag of the cursor widget leaves the cursor at
DragPoints == {Pt(1, 2, 1), Pt(2, 1, 1)}

\* the cursor widget of the view is on a primary volume and takes the events
\* of the interactor
WidgetActive(v) ==
    /\ get_reslice_image_viewer(data[v], NoId) # NoObj
    /\ viewers[v].interactor
    /\ viewers[v].process_events

\* a flush is owed: a debounced flush sleeps
CommitPending == debounce_tasks.loop # {}

\* SliceView.flush after position or normals changed: m.s the views, m.dt the
\* debounced tasks, m.committed whether the listeners of the cursor have run
SliceView_flush(s, dt, time) ==
    IF DEBOUNCED_FLUSH
    THEN [s |-> s, dt |-> wrapper(dt, "flush", <<>>, time), committed |-> FALSE]
    ELSE [s |-> flush_cursor(s, QuadViews), dt |-> dt, committed |-> TRUE]

\* an InteractionEvent of the cursor widget of view v, whose drag has left the
\* cursor at center p with the normals n: on_reslice_cursor_interaction
CursorInteraction(v, p, n) ==
    /\ WidgetActive(v)
    /\ ContainsPoint(ImageBounds(cursor.image), p)
    /\ LET dragged == [cursor EXCEPT !.center = p, !.normals = n]
           s0 == [AppViews EXCEPT !.cur = dragged, !.pos = p, !.nrm = n]
           dirty == position # p \/ normals # n
       IN  \E m \in {IF dirty THEN SliceView_flush(s0, debounce_tasks, now)
                      ELSE [s |-> s0, dt |-> debounce_tasks, committed |-> FALSE]} :
           /\ data' = m.s.data
           /\ viewers' = m.s.viewers
           /\ cursor' = m.s.cur
           /\ position' = m.s.pos
           /\ normals' = m.s.nrm
           /\ debounce_tasks' = m.dt
           /\ last' = [op |-> "on_reslice_cursor_interaction", id |-> NoId, view |-> v,
                       center |-> p, normals |-> n, dirty |-> dirty,
                       committed |-> m.committed, invoked |-> viewers[v].observers]
    /\ UNCHANGED <<redraws, selected, itemLoading, objects, views, tasks, now, last_clicked,
                   last_preset_name, obliques_visibility, calls, animation>>
    /\ UNCHANGED fetcher

\* the EndInteractionEvent of the cursor widget of view v:
\* on_reslice_cursor_end_interaction flushes what is owed
CursorEndInteraction(v) ==
    /\ WidgetActive(v)
    /\ \E s \in {IF CommitPending THEN flush_cursor(AppViews, QuadViews) ELSE AppViews} :
           /\ data' = s.data
           /\ viewers' = s.viewers
           /\ cursor' = s.cur
    /\ last' = [op |-> "on_reslice_cursor_end_interaction", id |-> NoId, view |-> v,
                invoked |-> viewers[v].observers]
    /\ UNCHANGED <<position, normals, redraws>>
    /\ OrchestratorUnchanged

\* mutant: the cursor is reset whether the view has a primary volume or not
SliceView_reset_unguarded(w) == update(reset_reslice(w))

\* SliceView.reset
SliceView_reset(w) ==
    IF get_reslice_image_viewer(w.reg, NoId) # NoObj
    THEN update(reset_reslice(w))
    ELSE w

\* the loop of QuadView.reset over its views; ThreeDView.reset moves the camera
RECURSIVE reset(_, _)
reset(s, vs) ==
    IF vs = <<>> THEN s
    ELSE reset(IF vs[1] \in SliceViews
               THEN Put(s, vs[1], SliceView_reset(ViewWorld(s, vs[1])))
               ELSE s,
               Tail(vs))

\* ctrl.reset(), the reset of the views
ResetView ==
    /\ \E s \in {reset(AppViews, QuadViews)} :
           /\ data' = s.data
           /\ viewers' = s.viewers
           /\ cursor' = s.cur
    /\ last' = [op |-> "reset", id |-> NoId, before |-> cursor]
    /\ UNCHANGED <<position, normals, redraws>>
    /\ OrchestratorUnchanged

GestureNext ==
    \/ LoadVolume
    \/ \E id \in {"a", "b"} : UnselectItem(id)
    \/ \E v \in SliceViews, p \in DragPoints, n \in NormalChoices : CursorInteraction(v, p, n)
    \/ \E v \in SliceViews : CursorEndInteraction(v)
    \/ ResetView

GestureSpec == Selected /\ [][GestureNext]_vars

(* The meshes of the scene: Mesh.load and the opacity slider *)

\* the opacity slider of the loaded mesh id moved to opacity: state[id] changes
\* and the listener Mesh._on_change of the id runs
SetOpacity(id, opacity) ==
    /\ id \in SelectedIds
    /\ \E k \in {get_object(objects, id)} :
           /\ k # 0
           /\ objects[k].type = "mesh" /\ objects[k].loaded
           /\ objects[k].opacity # opacity
           /\ \E obj \in {[objects[k] EXCEPT !.opacity = opacity]} :
              \E s \in {Mesh_on_change(AppViews, views, obj)} :
                  /\ data' = s.data
                  /\ viewers' = s.viewers
                  /\ cursor' = s.cur
                  /\ objects' = [objects EXCEPT ![k] = obj]
    /\ last' = [op |-> "set_opacity", id |-> id, value |-> opacity]
    /\ UNCHANGED <<position, normals, redraws, selected, itemLoading, views, tasks, now,
                   last_clicked>>
    /\ SettingsUnchanged

\* the meshes m and n and the volume a selected, their load tasks awake
MeshesSelected ==
    /\ data = [v \in Views |-> EmptyRegistry]
    /\ viewers = [v \in SliceViews |-> NoViewer]
    /\ cursor = InitialCursor
    /\ position = NoPoint
    /\ normals = NoPoint
    /\ redraws = <<>>
    /\ selected = <<[id |-> "m", item |-> 1], [id |-> "n", item |-> 2],
                    [id |-> "a", item |-> 3]>>
    /\ itemLoading = {1, 2, 3}
    /\ objects = on_selected_changed(<<>>, selected)
    /\ views = QuadViews
    /\ tasks = {[id |-> "m", item |-> 1, wake |-> 1], [id |-> "n", item |-> 2, wake |-> 2],
                [id |-> "a", item |-> 3, wake |-> 3]}
    /\ now = 3
    /\ last_clicked = 2
    /\ last = [op |-> "tick", id |-> NoId]
    /\ last_preset_name = "none"
    /\ obliques_visibility = TRUE
    /\ debounce_tasks = NoTasks
    /\ calls = <<>>
    /\ animation = {}
    /\ fetcher = FileFetcher(FALSE, "No")

MeshNext ==
    \/ LoadVolume
    \/ \E id \in {"m", "n", "a"} : UnselectItem(id)
    \/ \E id \in {"m", "n"}, opacity \in Opacities : SetOpacity(id, opacity)

MeshSpec == MeshesSelected /\ [][MeshNext]_vars

(* The views of the scene: Scene.add_view and Scene.remove_view *)

\* SceneObject._remove_from_view: view.remove_volume or view.remove_mesh, which
\* are unregister_data of the view
remove_from_view(s, v, data_id) ==
    IF v \in SliceViews
    THEN Put(s, v, SliceView_unregister_data(ViewWorld(s, v), data_id, FALSE, NoObj))
    ELSE Put(s, v, VtkView_unregister_data(ViewWorld(s, v), data_id, FALSE, NoObj))

\* the first loop of SceneObject.set_views: the object leaves the views of
\* self.views that are not in views
RECURSIVE set_views_remove(_, _, _, _)
set_views_remove(s, self_views, vs, data_id) ==
    IF self_views = <<>> THEN s
    ELSE set_views_remove(
            IF \A i \in DOMAIN vs : vs[i] # self_views[1]
            THEN remove_from_view(s, self_views[1], data_id)
            ELSE s,
            Tail(self_views), vs, data_id)

\* the second loop of SceneObject.set_views, for an object with data: the
\* object is added to the views of views that are not in self.views; m.s is
\* the views, m.obj the object
RECURSIVE set_views_add(_, _, _)
set_views_add(m, self_views, vs) ==
    IF vs = <<>> \/ m.raised THEN m
    ELSE set_views_add(
            IF \A i \in DOMAIN self_views : self_views[i] # vs[1]
            THEN IF m.obj.type = "volume" THEN Volume_add_to_view(m, vs[1])
                 ELSE [m EXCEPT !.s = add_mesh(m.s, vs[1], m.obj.data, m.obj.id)]
            ELSE m,
            self_views, Tail(vs))

\* SceneObject.set_views(views) of an object whose self.views is self_views
SceneObject_set_views(s, obj, self_views, vs) ==
    IF obj.data = "none"
    THEN [s |-> set_views_remove(s, self_views, vs, obj.id), obj |-> obj, raised |-> FALSE]
    ELSE set_views_add(
            [s |-> set_views_remove(s, self_views, vs, obj.id), obj |-> obj,
             raised |-> FALSE],
            self_views, vs)

\* what Scene.set_views leaves of the objects once the object k is done
Scene_set_views_done(m, k, done) ==
    [s |-> done.s, objects |-> [m.objects EXCEPT ![k] = done.obj], raised |-> done.raised]

\* Scene.set_views(self.views) from add_view and remove_view: the views of
\* every object are the list Scene.views itself (SceneObject.__init__ and
\* set_views store the list they are given, and Scene gives its own), so the
\* list an object compares with views is views, already appended to or
\* removed from
RECURSIVE Scene_set_views(_, _, _)
Scene_set_views(m, k, vs) ==
    IF k > Len(m.objects) \/ m.raised THEN m
    ELSE Scene_set_views(
            Scene_set_views_done(m, k, SceneObject_set_views(m.s, m.objects[k], vs, vs)),
            k + 1, vs)

\* the list without its first occurrence of v: list.remove
RECURSIVE Remove(_, _)
Remove(vs, v) ==
    IF vs = <<>> THEN <<>>
    ELSE IF vs[1] = v THEN Tail(vs)
    ELSE <<vs[1]>> \o Remove(Tail(vs), v)

\* ctrl.add_view(view), of a view the scene does not have
AddView(v) ==
    /\ \A i \in DOMAIN views : views[i] # v
    /\ views' = Append(views, v)
    /\ \E m \in {Scene_set_views([s |-> AppViews, objects |-> objects, raised |-> FALSE],
                                 1, views')} :
           /\ data' = m.s.data
           /\ viewers' = m.s.viewers
           /\ cursor' = m.s.cur
           /\ position' = m.s.pos
           /\ normals' = m.s.nrm
           /\ objects' = m.objects
    /\ last' = [op |-> "add_view", id |-> NoId, view |-> v]
    /\ UNCHANGED <<redraws, selected, itemLoading, tasks, now, last_clicked>>
    /\ SettingsUnchanged

\* ctrl.remove_view(view), of a view the scene has
RemoveView(v) ==
    /\ \E i \in DOMAIN views : views[i] = v
    /\ views' = Remove(views, v)
    /\ \E m \in {Scene_set_views([s |-> AppViews, objects |-> objects, raised |-> FALSE],
                                 1, views')} :
           /\ data' = m.s.data
           /\ viewers' = m.s.viewers
           /\ cursor' = m.s.cur
           /\ position' = m.s.pos
           /\ normals' = m.s.nrm
           /\ objects' = m.objects
    /\ last' = [op |-> "remove_view", id |-> NoId, view |-> v]
    /\ UNCHANGED <<redraws, selected, itemLoading, tasks, now, last_clicked>>
    /\ SettingsUnchanged

ViewsNext ==
    \/ LoadVolume
    \/ \E v \in Views : AddView(v)
    \/ \E v \in Views : RemoveView(v)

ViewsSpec == Selected /\ [][ViewsNext]_vars

(* A window/level drag on the primary surface of a slice view *)

\* get_reslice_window_level
get_reslice_window_level(vw) == <<vw.window, vw.level>>

\* `not self.is_primary` in window_level_changed_in_view: is_primary is not
\* called, and a bound method is true
not_self_is_primary == FALSE

\* whether Volume.window_level_changed_in_view of obj returns at its test
window_level_changed_returns(s, obj) == not_self_is_primary

\* Volume.window_level_changed_in_view past its test, obj having its new
\* window_level_min_max: the flush runs the listener _on_change of the id
window_level_changed_flush(m, k, obj, changed) ==
    [s |-> changed.s, objects |-> [m.objects EXCEPT ![k] = obj],
     raised |-> changed.raised, lpn |-> obj.preset]

\* Volume.window_level_changed_in_view of the object m.objects[k]
window_level_changed_in_view(m, k, window_level) ==
    IF window_level_changed_returns(m.s, m.objects[k]) THEN m
    ELSE window_level_changed_flush(m, k,
            [m.objects[k] EXCEPT !.window_level_min_max =
                <<window_level[2] - window_level[1] \div 2,
                  window_level[2] + window_level[1] \div 2>>],
            on_change(m.s, views,
                [m.objects[k] EXCEPT !.window_level_min_max =
                    <<window_level[2] - window_level[1] \div 2,
                      window_level[2] + window_level[1] \div 2>>]))

\* ctrl.window_level_changed_in_view(window_level): the method of every Volume,
\* in the order of their construction, up to the first that raises
RECURSIVE ctrl_window_level_changed_in_view(_, _, _)
ctrl_window_level_changed_in_view(m, k, window_level) ==
    IF k > Len(m.objects) \/ m.raised THEN m
    ELSE ctrl_window_level_changed_in_view(
            IF m.objects[k].type = "volume"
            THEN window_level_changed_in_view(m, k, window_level)
            ELSE m,
            k + 1, window_level)

\* a WindowLevelEvent of the interactor style of view v, the drag having set
\* the window and the level of the viewer to window_level: on_window_leveling
OnWindowLeveling(v, window_level) ==
    /\ has_primary_volume(data[v]) /\ viewers[v].interactor
    /\ \E s0 \in {[AppViews EXCEPT !.viewers[v].window = window_level[1],
                                    !.viewers[v].level = window_level[2]]} :
       \E m \in {ctrl_window_level_changed_in_view(
                    [s |-> s0, objects |-> objects, raised |-> FALSE,
                     lpn |-> last_preset_name],
                    1, get_reslice_window_level(s0.viewers[v]))} :
           /\ data' = m.s.data
           /\ viewers' = m.s.viewers
           /\ cursor' = m.s.cur
           /\ objects' = m.objects
           /\ last_preset_name' = m.lpn
           /\ last' = [op |-> "on_window_leveling", id |-> NoId, view |-> v,
                       value |-> window_level, raised |-> m.raised]
    /\ GestureUnchanged
    /\ UNCHANGED <<position, normals, redraws, selected, itemLoading, views, tasks, now,
                   last_clicked>>

WindowLevelNext ==
    \/ LoadVolume
    \/ \E id \in {"a", "b"} : UnselectItem(id)
    \/ \E v \in SliceViews, wl \in WindowLevels : OnWindowLeveling(v, wl)

WindowLevelSpec == Selected /\ [][WindowLevelNext]_vars

(* The animation of the passive slice views (app/components.py) *)

\* the debounced end_interaction of each slice view
end_interaction(v) ==
    CASE v = "sag_view" -> "sag_view.end_interaction"
      [] v = "cor_view" -> "cor_view.end_interaction"
      [] OTHER -> "ax_view.end_interaction"

\* mutant: the view of the gesture is animated like the others
update_from_other_all(anim, v, other, interaction) ==
    IF interaction THEN anim \cup {v} ELSE anim \ {v}

\* SliceView.update_from_other of view v, other being the view of the gesture
\* ("none" for None), interaction True or False
update_from_other(anim, v, other, interaction) ==
    IF v = other THEN anim
    ELSE IF interaction THEN anim \cup {v}
    ELSE anim \ {v}

\* ctrl.update_other_slice_views(other, interaction): update_from_other of
\* each slice view
RECURSIVE update_other_slice_views(_, _, _, _)
update_other_slice_views(anim, vs, other, interaction) ==
    IF vs = <<>> THEN anim
    ELSE update_other_slice_views(
            IF vs[1] \in SliceViews
            THEN update_from_other(anim, vs[1], other, interaction)
            ELSE anim,
            Tail(vs), other, interaction)

\* ctrl.debounced_end_interaction(): the debounced end_interaction of each
\* slice view
RECURSIVE debounced_end_interaction(_, _, _)
debounced_end_interaction(dt, vs, time) ==
    IF vs = <<>> THEN dt
    ELSE debounced_end_interaction(
            IF vs[1] \in SliceViews
            THEN wrapper(dt, end_interaction(vs[1]), <<>>, time)
            ELSE dt,
            Tail(vs), time)

\* the listeners set_position of the slice views, run by a flush:
\* vtkResliceCursor.SetCenter, which keeps the center within the image, on the
\* one cursor the viewers share
set_position(cur, pos) ==
    IF /\ \E v \in SliceViews : has_primary_volume(data[v])
       /\ pos # NoPoint
       /\ ContainsPoint(ImageBounds(cur.image), pos)
    THEN [cur EXCEPT !.center = pos]
    ELSE cur

\* the scroll and window/level events of a run, each with four debounced calls
MaxGestures == 2

\* the outcomes of a drag of the cursor widget: a translation and a rotation
DragOutcomes ==
    {[center |-> Pt(1, 2, 1), normals |-> DefaultNormals],
     [center |-> Pt(2, 1, 1), normals |-> RotatedNormals]}

\* where a scroll leaves the center of the cursor
ScrollPoints == {Pt(1, 2, 1)}

GestureAllowed ==
    /\ debounce_tasks.created + 4 <= 4 * MaxGestures
    /\ now + Wait <= MaxTime

\* an InteractionEvent of the viewer of view v, the scroll having left the
\* cursor at center p: on_slice_scroll. state.window_level and its listener,
\* whose set_window_level is not in vtk_utils.py, are left out
SliceScroll(v, p) ==
    /\ has_primary_volume(data[v]) /\ viewers[v].interactor
    /\ ContainsPoint(ImageBounds(cursor.image), p)
    /\ GestureAllowed
    /\ cursor' = [cursor EXCEPT !.center = p]
    /\ position' = p
    /\ debounce_tasks' = debounced_end_interaction(
                            wrapper(debounce_tasks, "flush", <<>>, now), QuadViews, now)
    /\ animation' = update_other_slice_views(animation, QuadViews, v, TRUE)
    /\ last' = [op |-> "on_slice_scroll", id |-> NoId, view |-> v]
    /\ UNCHANGED <<data, viewers, normals, redraws, selected, itemLoading, objects, views,
                   tasks, now, last_clicked, last_preset_name, obliques_visibility, calls>>
    /\ UNCHANGED fetcher

\* a WindowLevelEvent of the interactor style of view v: on_window_leveling
WindowLeveling(v) ==
    /\ has_primary_volume(data[v]) /\ viewers[v].interactor
    /\ GestureAllowed
    /\ debounce_tasks' = debounced_end_interaction(
                            wrapper(debounce_tasks, "flush", <<>>, now), QuadViews, now)
    /\ animation' = update_other_slice_views(animation, QuadViews, v, TRUE)
    /\ last' = [op |-> "on_window_leveling", id |-> NoId, view |-> v]
    /\ UNCHANGED <<selected, itemLoading, objects, views, tasks, now, last_clicked,
                   last_preset_name, obliques_visibility, calls>>
    /\ ViewsUnchanged
    /\ UNCHANGED fetcher

\* an InteractionEvent of the cursor widget of view v, the drag having left the
\* cursor at center p with the normals n: on_reslice_cursor_interaction
ResliceCursorInteraction(v, p, n) ==
    /\ WidgetActive(v)
    /\ ContainsPoint(ImageBounds(cursor.image), p)
    /\ cursor' = [cursor EXCEPT !.center = p, !.normals = n]
    /\ position' = p
    /\ normals' = n
    /\ animation' = update_other_slice_views(animation, QuadViews, v, TRUE)
    /\ last' = [op |-> "on_reslice_cursor_interaction", id |-> NoId, view |-> v,
                center |-> p, normals |-> n, dirty |-> TRUE, committed |-> FALSE]
    /\ UNCHANGED <<data, viewers, redraws, selected, itemLoading, objects, views, tasks, now,
                   last_clicked, last_preset_name, obliques_visibility, debounce_tasks,
                   calls>>
    /\ UNCHANGED fetcher

\* the EndInteractionEvent of the cursor widget of view v:
\* on_reslice_cursor_end_interaction
ResliceCursorEndInteraction(v) ==
    /\ WidgetActive(v)
    /\ cursor' = set_position(cursor, position)
    /\ animation' = update_other_slice_views(animation, QuadViews, v, FALSE)
    /\ last' = [op |-> "on_reslice_cursor_end_interaction", id |-> NoId, view |-> v]
    /\ UNCHANGED <<data, viewers, position, normals, redraws, selected, itemLoading, objects,
                   views, tasks, now, last_clicked, last_preset_name, obliques_visibility,
                   debounce_tasks, calls>>
    /\ UNCHANGED fetcher

\* delayed_execution of the task t of ctrl.debounced_flush: state.flush()
RunFlush(t) ==
    /\ t \in debounce_tasks.loop
    /\ t.key = <<"flush">>
    /\ now >= t.wake
    /\ debounce_tasks' = [debounce_tasks EXCEPT !.loop = @ \ {t}]
    /\ cursor' = set_position(cursor, position)
    /\ last' = [op |-> "flush", id |-> NoId]
    /\ UNCHANGED <<data, viewers, position, normals, redraws, selected, itemLoading, objects,
                   views, tasks, now, last_clicked, last_preset_name, obliques_visibility,
                   calls, animation>>
    /\ UNCHANGED fetcher

\* delayed_execution of the task t of the debounced end_interaction of view v:
\* update_from_other(None, False)
RunEndInteraction(v, t) ==
    /\ t \in debounce_tasks.loop
    /\ t.key = <<end_interaction(v)>>
    /\ now >= t.wake
    /\ debounce_tasks' = [debounce_tasks EXCEPT !.loop = @ \ {t}]
    /\ animation' = update_from_other(animation, v, "none", FALSE)
    /\ last' = [op |-> "end_interaction", id |-> NoId, view |-> v,
                animated |-> v \in animation]
    /\ UNCHANGED <<selected, itemLoading, objects, views, tasks, now, last_clicked,
                   last_preset_name, obliques_visibility, calls>>
    /\ ViewsUnchanged
    /\ UNCHANGED fetcher

RunDebounced ==
    \/ \E t \in debounce_tasks.loop : RunFlush(t)
    \/ \E v \in SliceViews, t \in debounce_tasks.loop : RunEndInteraction(v, t)

AnimationNext ==
    \/ LoadVolume
    \/ Tick
    \/ \E v \in SliceViews, p \in ScrollPoints : SliceScroll(v, p)
    \/ \E v \in SliceViews : WindowLeveling(v)
    \/ \E v \in SliceViews, d \in DragOutcomes :
            ResliceCursorInteraction(v, d.center, d.normals)
    \/ \E v \in SliceViews : ResliceCursorEndInteraction(v)
    \/ RunDebounced

\* the state of the application at the click of "a"
Clicked ==
    /\ data = [v \in Views |-> EmptyRegistry]
    /\ viewers = [v \in SliceViews |-> NoViewer]
    /\ cursor = InitialCursor
    /\ position = NoPoint
    /\ normals = NoPoint
    /\ redraws = <<>>
    /\ selected = <<[id |-> "a", item |-> 1]>>
    /\ itemLoading = {1}
    /\ objects = on_selected_changed(<<>>, selected)
    /\ views = QuadViews
    /\ tasks = {[id |-> "a", item |-> 1, wake |-> 2]}
    /\ now = 1
    /\ last_clicked = 1
    /\ last = [op |-> "toggle_item", id |-> "a"]
    /\ last_preset_name = "none"
    /\ obliques_visibility = TRUE
    /\ debounce_tasks = NoTasks
    /\ calls = <<>>
    /\ animation = {}
    /\ fetcher = FileFetcher(FALSE, "No")

AnimationSpec == Clicked /\ [][AnimationNext]_vars

\* the event loop runs and a drag of the cursor widget ends
AnimationLiveSpec ==
    /\ AnimationSpec
    /\ WF_vars(Tick)
    /\ WF_vars(RunDebounced)
    /\ \A v \in SliceViews : WF_vars(ResliceCursorEndInteraction(v))

(* The visibility of the obliques *)

\* SliceView.on_obliques_visibility_changed
on_obliques_visibility_changed(w, visible) ==
    IF get_reslice_image_viewer(w.reg, NoId) # NoObj
    THEN update([w EXCEPT !.vw = set_oblique_visibility(w.vw, visible)])
    ELSE w

\* the listeners of obliques_visibility, one of each slice view
RECURSIVE obliques_visibility_changed(_, _, _)
obliques_visibility_changed(s, vs, visible) ==
    IF vs = <<>> THEN s
    ELSE obliques_visibility_changed(
            IF vs[1] \in SliceViews
            THEN Put(s, vs[1], on_obliques_visibility_changed(ViewWorld(s, vs[1]), visible))
            ELSE s,
            Tail(vs), visible)

\* a click on the button of the tools strip: obliques_visibility = !obliques_visibility,
\* and the flush runs the listeners
ObliquesVisibilityChanged ==
    /\ selected # <<>>        \* the button is disabled without a selection
    /\ obliques_visibility' = ~obliques_visibility
    /\ LET s == obliques_visibility_changed(AppViews, QuadViews, ~obliques_visibility)
       IN  /\ data' = s.data
           /\ viewers' = s.viewers
           /\ cursor' = s.cur
    /\ last' = [op |-> "obliques_visibility", id |-> NoId]
    /\ UNCHANGED <<position, normals, redraws, selected, itemLoading, objects, views, tasks,
                   now, last_clicked, last_preset_name, debounce_tasks, calls, animation>>
    /\ UNCHANGED fetcher

ObliquesNext ==
    \/ Next
    \/ ObliquesVisibilityChanged

ObliquesSpec == Init /\ [][ObliquesNext]_vars

(* The presets of the 3D view *)

\* the names a client gives set_volume_preset: those of the catalog and one
\* that is not in it
Names == PresetNames \cup {"Unknown"}

Ranges == {ScalarRange("ct"), ScalarRange("pet")}

\* the volume of data_id in the 3D view, NoObj without one
Volume3D(reg, data_id) ==
    LET volume == get_data(reg, data_id)
    IN  IF volume # NoObj /\ volume.kind = "volume" THEN volume ELSE NoObj

\* threed_view.set_volume_preset(data_id, preset_name, range)
SetVolumePreset(data_id, preset_name, range) ==
    /\ LET w == ViewWorld(AppViews, "threed_view")
       IN  \E m \in {ThreeDView_set_volume_preset(w, data_id, preset_name, range)} :
           /\ data' = [data EXCEPT !["threed_view"] = m.w.reg]
           /\ last' = [op |-> "set_volume_preset", id |-> data_id, preset |-> preset_name,
                       range |-> range, raised |-> m.raised,
                       volume |-> Volume3D(data["threed_view"], data_id),
                       returned |-> IF get_data(w.reg, data_id) = NoObj \/ m.raised
                                    THEN FALSE
                                    ELSE apply_slicer_preset(
                                            get_preset_by_name(preset_name),
                                            get_data(w.reg, data_id).property,
                                            range).returned,
                       updated |-> m.w.log # <<>>]
    /\ UNCHANGED <<viewers, cursor, position, normals, redraws>>
    /\ OrchestratorUnchanged

\* the client picks a preset for a loaded volume: state[id].preset changes and
\* the flush runs the listener Volume._on_change
PresetChanged(k, preset_name) ==
    /\ k \in DOMAIN objects
    /\ objects[k].type = "volume" /\ objects[k].loaded
    /\ LET obj == [objects[k] EXCEPT !.preset = preset_name]
       IN  \E m \in {on_change(AppViews, views, obj)} :
           /\ data' = m.s.data
           /\ viewers' = m.s.viewers
           /\ cursor' = m.s.cur
           /\ objects' = [objects EXCEPT ![k] = obj]
           /\ last_preset_name' = preset_name
           /\ GestureUnchanged
           /\ last' = [op |-> "on_change", id |-> obj.id, preset |-> preset_name,
                       raised |-> m.raised]
    /\ UNCHANGED <<position, normals, redraws, selected, itemLoading, views, tasks, now,
                   last_clicked>>

PresetNext ==
    \/ LoadVolume
    \/ \E id \in {"a", "b"}, name \in Names, range \in Ranges :
            SetVolumePreset(id, name, range)
    \/ \E k \in 1..2, name \in PresetNames : PresetChanged(k, name)

PresetSpec == Selected /\ [][PresetNext]_vars

----------------------------------------------------------------------------
(* Claims on the registry and the cursor of one slice viewport (SliceSpec) *)

\* C13: remove_data(id) with an id that has no renderable in the viewport
\* leaves the registry of the viewport as it was
C13_UnregisterAbsentIsNoOp ==
    [][(last'.op = "remove_data" /\ last'.id \notin RegIds(data[sv]))
          => data'[sv] = data[sv]]_vars

\* C32: remove_data(id) leaves the renderables of every other id registered
\* as they were, but for the secondary it promotes to primary
C32_OthersStayRegistered ==
    [][last'.op = "remove_data" =>
          \A id \in RegIds(data[sv]) \ {last'.id} :
              \/ RegObjs(data'[sv], id) = RegObjs(data[sv], id)
              \/ /\ is_secondary_volume(data[sv], id)
                 /\ is_primary_volume(data'[sv], id)]_vars

\* C14: remove_volume(data_id, only_data=r) removes r alone: every other
\* renderable registered under data_id is registered under it afterwards
C14_OnlyDataRemovedAlone ==
    [][last'.op = "remove_volume" =>
          LET before == RegObjs(data[sv], last'.id)
              after == RegObjs(data'[sv], last'.id)
          IN  \A k \in DOMAIN before :
                 before[k] # last'.only_data
                    => \E j \in DOMAIN after : after[j] = before[k]]_vars

----------------------------------------------------------------------------
(* Claims on the debounced calls (DebounceLiveSpec) *)

\* the tasks of the key that sleep
Sleeping(key) == {t \in debounce_tasks.loop : t.key = key}

\* the runs of func for the task n
RunsOf(n) == {i \in DOMAIN calls : calls[i].n = n}

\* the task n is the one stored for its key and sleeps
Armed(n) ==
    \E t \in debounce_tasks.loop : t.n = n /\ debounce_tasks.latest[t.key] = n

\* C24: a call leaves one sleeping task for its key, made by that call, with
\* its arguments and the whole wait ahead (the task of the call before is
\* cancelled); func runs only for the task of the last call of the key, not
\* before its wait is over and at most once; and the task of the last call of
\* a key does run
C24_Debounced ==
    /\ [](\A key \in DOMAIN debounce_tasks.latest : Cardinality(Sleeping(key)) <= 1)
    /\ [](\A n \in 1..MaxCalls : Cardinality(RunsOf(n)) <= 1)
    /\ [][last'.op = "call" =>
              {t \in debounce_tasks'.loop : t.key = last'.key}
                  = {[n |-> debounce_tasks'.created, key |-> last'.key,
                      args |-> last'.args, wake |-> now + Wait]}]_vars
    /\ [][last'.op = "func" /\ calls' # calls =>
              LET run == calls'[Len(calls')]
              IN  /\ debounce_tasks.latest[run.key] = run.n
                  /\ \E t \in debounce_tasks.loop :
                        t.n = run.n /\ t.args = run.args /\ now >= t.wake]_vars
    /\ \A n \in 1..MaxCalls :
          Armed(n) ~> (RunsOf(n) # {} \/ (~Armed(n) /\ debounce_tasks.created > n))

\* two calls of a key within the wait, then func has run with the arguments
\* of the second
C24_Witness ==
    /\ 1 \in debounce_tasks.cancelled
    /\ \E i \in DOMAIN calls : calls[i].n = 2 /\ calls[i].args = <<"view1", "y">>
    /\ Len(calls) = 1
    /\ RunsOf(1) = {}
    /\ debounce_tasks.loop = {}

----------------------------------------------------------------------------
(* Claims on the gestures and the reset (GestureSpec) *)

\* C25: an event of a drag that moved the cursor does not commit position and
\* normals by itself, and after the end of the gesture nothing is owed: the
\* state holds the center and the normals of the cursor
C25_DragCommitsCoalesced ==
    /\ [][last'.op = "on_reslice_cursor_interaction" /\ last'.dirty =>
              ~last'.committed]_vars
    /\ [][last'.op = "on_reslice_cursor_end_interaction" =>
              /\ ~CommitPending'
              /\ position' = cursor'.center
              /\ normals' = cursor'.normals]_vars

\* C36: an event of the cursor widget of a slice view (a drag of the cursor,
\* the end of the interaction) invokes the handler of that view exactly once,
\* however many primary volumes the view has had
C36_HandlerInvokedOnce ==
    [][last'.op \in {"on_reslice_cursor_interaction",
                      "on_reslice_cursor_end_interaction"} /\ last' # last =>
           last'.invoked = 1]_vars

\* the slice views that have a primary volume
WithPrimary == {v \in SliceViews : has_primary_volume(data[v])}

\* C26: when no commit is owed the viewers of the slice views that show a
\* primary volume use one vtkResliceCursor, that of the first viewer, and once
\* a drag in one of them is committed that cursor has the center and the
\* normals of the drag
C26_OneCursor ==
    /\ [](~CommitPending =>
              \A v \in WithPrimary : viewers[v].cursor = cursor.owner
                                        /\ cursor.owner # NoAxis)
    /\ [][last'.op = "on_reslice_cursor_interaction" /\ last'.committed =>
              /\ cursor'.center = last'.center
              /\ cursor'.normals = last'.normals
              /\ position' = last'.center
              /\ normals' = last'.normals]_vars

\* a drag in the sagittal view has turned the cursor and the three views show
\* a primary volume
C26_Witness ==
    /\ last.op = "on_reslice_cursor_interaction" /\ last.committed
    /\ last.view = "sag_view"
    /\ last.normals = RotatedNormals
    /\ WithPrimary = SliceViews

\* the id of the primary volume of a slice view
PrimaryId(v) == CHOOSE id \in RegIds(data[v]) : is_primary_volume(data[v], id)

\* C30: the reset of the views leaves the cursor at the center of the primary
\* volume of each slice view that has one, with the default normals; without
\* a primary volume in the slice views it changes nothing
C30_ResetCentersCursor ==
    [][last'.op = "reset" =>
          IF WithPrimary # {}
          THEN \A v \in WithPrimary :
                  /\ cursor'.center = ImageCenter(DataOf(PrimaryId(v)))
                  /\ cursor'.normals = DefaultNormals
          ELSE /\ cursor' = cursor
               /\ viewers' = viewers
               /\ data' = data]_vars

\* a reset has brought back a cursor that a drag had moved and turned
C30_Witness ==
    /\ last.op = "reset"
    /\ WithPrimary = SliceViews
    /\ last.before.center # cursor.center
    /\ last.before.normals = RotatedNormals

----------------------------------------------------------------------------
(* Claims on the views of the scene (ViewsSpec) *)

\* C35: after add_view(v) every loaded object has a renderable in v, and after
\* remove_view(v) no loaded object has one in v
C35_ObjectsFollowViews ==
    /\ [][last'.op = "add_view" =>
              \A k \in DOMAIN objects' :
                  objects'[k].loaded => objects'[k].id \in RegIds(data'[last'.view])]_vars
    /\ [][last'.op = "remove_view" =>
              \A k \in DOMAIN objects' :
                  objects'[k].loaded => objects'[k].id \notin RegIds(data'[last'.view])]_vars

----------------------------------------------------------------------------
(* Claims on the fetches of the files (FetchSpec) *)

\* C40: with cache mode No, leaving the context of one fetch does not delete
\* the file another open fetch uses; and, in any cache mode, no file of the
\* directory of the assetstore is deleted
C40_FetchedFilesKept ==
    /\ fetcher.cache = "No" => \A c \in fetcher.fetches : c.file_path \in fetcher.fs
    /\ Stored \subseteq fetcher.fs

----------------------------------------------------------------------------
(* Claims on the meshes (MeshSpec) *)

\* C37: the load of a mesh leaves the actors of every other id as they were,
\* their color and their opacity included
C37_LoadKeepsOtherMeshes ==
    [][last'.op = "load_item" /\ last'.id \in {"m", "n"} /\ last' # last
           /\ ~last'.raised =>
               \A v \in Views : \A id \in RegIds(data[v]) \ {last'.id} :
                   RegObjs(data'[v], id) = RegObjs(data[v], id)]_vars

----------------------------------------------------------------------------
(* Claims on the window/level drag (WindowLevelSpec) *)

\* the loaded volumes that are no primary of a slice view
SecondaryVolumes ==
    {k \in DOMAIN objects :
        /\ objects[k].type = "volume" /\ objects[k].loaded
        /\ \E v \in SliceViews : is_secondary_volume(data[v], objects[k].id)
        /\ ~is_primary(AppViews, views, objects[k].id)}

\* C33: a window/level drag on the primary surface leaves the stored
\* window/level of every secondary volume, and the window/level of its slices
\* in every slice view, as they were
C33_SecondariesKeepWindowLevel ==
    [][last'.op = "on_window_leveling" =>
          \A k \in SecondaryVolumes :
              /\ objects'[k].window_level_min_max = objects[k].window_level_min_max
              /\ \A v \in SliceViews :
                     get_image_slices(data'[v], objects[k].id)
                        = get_image_slices(data[v], objects[k].id)]_vars

----------------------------------------------------------------------------
(* Claims on the animation of the passive views (AnimationLiveSpec) *)

----------------------------------------------------------------------------
(* Claims on the obliques (ObliquesSpec) *)

\* C28: in a slice view that has a primary volume the cursor widget processes
\* events exactly when obliques_visibility is true, and the centerlines are
\* visible exactly then
C28_WidgetFollowsVisibility ==
    \A v \in SliceViews :
        has_primary_volume(data[v]) =>
            /\ viewers[v].process_events = obliques_visibility
            /\ (viewers[v].centerlines > 0) = obliques_visibility

----------------------------------------------------------------------------
(* Claims on the presets of the 3D view (PresetSpec) *)

\* the property carries the color and opacity curves of the preset at the range
Carries(property, preset, range) ==
    /\ property.colors = array_to_function(preset.colorTransfer, range, 4)
    /\ property.opacities = array_to_function(preset.scalarOpacity, range, 2)

\* C22: applying a preset of the catalog at a range to the property of a volume
\* returns false and leaves the property as it was exactly when the property
\* already carries the curves of that preset at that range; otherwise it
\* returns true and the property then carries them
C22_AppliedUnlessCarried ==
    [][last'.op = "set_volume_preset" /\ last'.volume # NoObj
            /\ last'.preset \in PresetNames =>
          LET preset == get_preset_by_name(last'.preset)
              before == last'.volume.property
              after == Volume3D(data'["threed_view"], last'.id).property
          IN  IF Carries(before, preset, last'.range)
              THEN ~last'.returned /\ after = before
              ELSE last'.returned /\ Carries(after, preset, last'.range)]_vars

\* C23: set_volume_preset with a name the catalog does not have raises nothing
\* and leaves the 3D view, transfer functions and shading included, as it was
C23_UnknownPresetIgnored ==
    [][last'.op = "set_volume_preset" /\ last'.preset \notin PresetNames =>
          /\ ~last'.raised
          /\ data'["threed_view"] = data["threed_view"]]_vars

\* C29: when a load has added a volume to the 3D view, the property of the
\* volume carries the curves of the preset recorded for the volume (the last
\* used preset of the scene), at the scalar range of the volume
C29_AddedWithLastPreset ==
    [][last'.op = "load_item" /\ ~last'.raised
            /\ Volume3D(data'["threed_view"], last'.id) # NoObj =>
          LET obj == objects'[get_object(objects', last'.id)]
          IN  /\ obj.preset = IF last_preset_name # "none" THEN last_preset_name
                              ELSE Presets[1].name
              /\ Carries(Volume3D(data'["threed_view"], last'.id).property,
                         get_preset_by_name(obj.preset), ScalarRange(obj.data))]_vars

----------------------------------------------------------------------------
(* Claims on the cursor and the display settings (ControlSpec) *)

\* C15: set_reslice_center called on a viewer with a point that is not the
\* center of the cursor, and then again with the same point, returns true the
\* first time and false the second, and the second call leaves the cursor as
\* it was
C15_SetCenterTwice ==
    [][(/\ last.op = "set_reslice_center" /\ last.viewer
        /\ last.before # last.point
        /\ last'.op = "set_reslice_center"
        /\ last'.view = last.view /\ last'.point = last.point)
           => /\ last.returned
              /\ ~last'.returned
              /\ cursor' = cursor]_vars

\* C16: after set_reslice_center on a viewer the center of the cursor lies in
\* the bounds of the cursor's image: each coordinate of the point below the
\* bounds is raised to the lower bound, each coordinate above them is lowered
\* to the upper bound, and every other coordinate is the point's
C16_CenterClamped ==
    (last.op = "set_reslice_center" /\ last.viewer) =>
        LET b == ImageBounds(cursor.image)
        IN  \A k \in 1..3 :
                /\ b[2 * k - 1] <= cursor.center[k] /\ cursor.center[k] <= b[2 * k]
                /\ last.point[k] < b[2 * k - 1] => cursor.center[k] = b[2 * k - 1]
                /\ last.point[k] > b[2 * k] => cursor.center[k] = b[2 * k]
                /\ (b[2 * k - 1] <= last.point[k] /\ last.point[k] <= b[2 * k])
                       => cursor.center[k] = last.point[k]

\* a point outside the bounds was given and the center was set
C16_Witness ==
    /\ last.op = "set_reslice_center" /\ last.viewer /\ last.returned
    /\ ~ContainsPoint(ImageBounds(cursor.image), last.point)
    /\ cursor.center # last.before

-----------------------------------------------------------------\* the vtkImageSlice image_slice as the registry reg holds it now
Now(reg, image_slice) ==
    LET all == AllObjs(reg)
    IN  all[CHOOSE k \in DOMAIN all : all[k].kind = "slice" /\ all[k].h = image_slice.h]

\* the primary surface took the value of the last set_volume_* call when it
\* differed from its own, and the setter told so
ViewerSetterApplies(current) ==
    last.viewer =>
        IF last.value # last.viewer_before
        THEN last.viewer_returned /\ current = last.value
        ELSE ~last.viewer_returned /\ current = last.viewer_before

\* C20: a setter of the window/level or the opacity of a volume renderable
\* (the surface of the primary, an overlay) or of a cursor normal, called with
\* a value that is not the current one, applies it and returns true, and with
\* the current value returns false and changes nothing; set_volume_opacity and
\* set_volume_window_level redraw the view exactly when a setter they called
\* returned true
C20_SettersIdempotent ==
    /\ last.op = "set_volume_opacity" =>
          /\ ViewerSetterApplies(viewers[last.view].opacity)
          /\ \A k \in DOMAIN last.slices :
                Now(data[last.view], last.slices[k]).opacity = last.value
          /\ last.modified <=>
                \/ last.viewer /\ last.value # last.viewer_before
                \/ \E k \in DOMAIN last.slices : last.slices[k].opacity # last.value
          /\ redraws # <<>> <=> last.modified
    /\ last.op = "set_volume_window_level" =>
          /\ ViewerSetterApplies(<<viewers[last.view].window, viewers[last.view].level>>)
          /\ \A k \in DOMAIN last.slices :
                LET image_slice == Now(data[last.view], last.slices[k])
                IN  <<image_slice.window, image_slice.level>> = last.value
          /\ last.modified <=>
                \/ last.viewer /\ last.value # last.viewer_before
                \/ \E k \in DOMAIN last.slices :
                      <<last.slices[k].window, last.slices[k].level>> # last.value
          /\ redraws # <<>> <=> last.modified
    /\ (last.op = "set_reslice_normal" /\ last.viewer) =>
          /\ cursor.normals[Orientation(last.view) + 1] = last.value
          /\ last.returned <=> last.value # last.before

\* C21: set_volume_opacity(data_id, v) and set_volume_window_level(data_id, wl)
\* on a slice view leave every renderable registered under another id as it
\* was, the viewer of a primary volume of another id included, whether or not
\* data_id has a renderable in the view
C21_OnlyDataIdChanged ==
    [][last'.op \in {"set_volume_opacity", "set_volume_window_level"} =>
          LET v == last'.view
          IN  \A id \in RegIds(data[v]) \ {last'.id} :
                  /\ RegObjs(data'[v], id) = RegObjs(data[v], id)
                  /\ is_primary_volume(data[v], id) => viewers'[v] = viewers[v]]_vars

-----------
(* Claims on the slice sliders (SliderSpec) *)

\* C17: on every axis, for every index i with 0 <= i < slice_count, the index
\* get_slice_index_from_position gives for the position
\* get_position_from_slice_index(i) is i
C17_SliceIndexRoundTrip ==
    (/\ last.op = "set_slice" /\ last.viewer
     /\ 0 <= last.slice /\ last.slice < last.range[2])
        => last.index = last.slice

\* C39: the index get_slice() gives in a slice view that has a primary volume
\* is within get_slice_range(), wherever state.position is
C39_SliceWithinRange ==
    \A v \in SliceViews :
        has_primary_volume(data[v]) /\ position # NoPoint
            => LET slice == get_slice(World(v), Orientation(v), position)
                   range == get_slice_range(World(v), Orientation(v))
               IN  range[1] <= slice /\ slice <= range[2]

-----------------------------------------------------------------\* C19: a slice view without primary volume answers [0, 0] to
\* get_slice_range() and None to get_slice(), and its set_slice(i) publishes no
\* position, requests no flush and leaves the cursor, the viewers and the
\* registries as they are
C19_NoPrimaryNoSlices ==
    /\ [](\A v \in SliceViews :
            ~has_primary_volume(data[v])
                => /\ get_slice_range(World(v), Orientation(v)) = <<0, 0>>
                   /\ get_slice(World(v), Orientation(v), position) = NoIndex)
    /\ [][(last'.op = "set_slice" /\ ~has_primary_volume(data[last'.view]))
            => /\ ~last'.flushed
               /\ last'.range = <<0, 0>> /\ last'.current = NoIndex
               /\ UNCHANGED <<data, viewers, cursor, position, normals, redraws>>]_vars

\* set_slice was called on a view without primary volume
C19_Witness ==
    /\ last.op = "set_slice" /\ ~last.viewer /\ last.slice > 0
    /\ ~has_primary_volume(data[last.view])

-----------
(* Claims on the views after a load (Spec) *)

\* the number of steps of img spacing that cover the extent of the bounds of
\* img along coordinate k
StepsAlong(img, k) ==
    LET extent == ImageBounds(img)[2 * k] - ImageBounds(img)[2 * k - 1]
        spacing == ImageSpacing(img)[k]
    IN  CHOOSE n \in 0..extent :
            n * spacing >= extent /\ (n > 0 => (n - 1) * spacing < extent)

\* a load task loads a volume while no view holds a renderable
LoadsFirstVolume ==
    /\ \A v \in Views : data[v] = EmptyRegistry
    /\ last'.op = "load_item" /\ last'.fetched /\ ~last'.raised
    /\ last'.id \in VolumeIds
    /\ get_object(objects, last'.id) # 0

\* C18: once a volume is loaded while no view holds a renderable, each slice
\* view holds one renderable, a primary volume, the 3D view holds one
\* renderable, a volume, the center of the cursor is the center of the volume
\* and get_slice_range() of each slice view is [0, N], N being the extent of
\* the bounds along the axis of the view divided by the spacing along it,
\* rounded up
C18_FirstVolumeLoaded ==
    [][LoadsFirstVolume =>
          LET img == DataOf(last'.id)
          IN  /\ \A v \in SliceViews :
                    /\ RegIds(data'[v]) = {last'.id}
                    /\ Len(AllObjs(data'[v])) = 1
                    /\ AllObjs(data'[v])[1].kind = "reslice"
                    /\ viewers'[v].input = img
                    /\ get_slice_range(World(v)', Orientation(v))
                           = <<0, StepsAlong(img, Orientation(v) + 1)>>
              /\ RegIds(data'["threed_view"]) = {last'.id}
              /\ Len(AllObjs(data'["threed_view"])) = 1
              /\ AllObjs(data'["threed_view"])[1].kind = "volume"
              /\ cursor'.center = ImageCenter(img)]_vars

\* a load task has loaded a volume and no view holds anything else
C18_Witness ==
    /\ last.op = "load_item" /\ last.fetched /\ ~last.raised
    /\ last.id \in VolumeIds
    /\ \A v \in Views : RegIds(data[v]) = {last.id}
    /\ cursor.center = ImageCenter(DataOf(last.id))
====
